---- MODULE Spec2Model ----
(***************************************************************************)
(* Model of src/mip/HighsMipSolverData.cpp: the incumbent and bound        *)
(* manager, the root LP evaluation loop, the restart procedure and the     *)
(* limit checker of the HiGHS MIP solver.                                  *)
(*                                                                         *)
(* Numbers.  Every double of the program is an integer number of "ticks".  *)
(* One tick is the smallest step the model represents (it plays the role   *)
(* of the next representable value of std::nextafter), the feasibility     *)
(* tolerance is FEASTOL ticks and the value 1.0 is UNIT ticks.  +infinity   *)
(* is the sentinel kHighsInf, which the arithmetic helpers absorb the way  *)
(* IEEE arithmetic does.  small_matrix_value (epsilon) is smaller than any *)
(* difference of two model values where it guards a ceiling; where a bound *)
(* is compared with zero it is one tick.                                   *)
(*                                                                         *)
(* Model under solve.  The original model has one integer column           *)
(* (col_lower_ <= x <= col_upper_, cost col_cost_) and one row            *)
(* (a_value_*x >= row_lower_).    Presolve is an external collaborator; it  *)
(* is represented by the column shift it leaves on the postsolve stack     *)
(* (reduced x' = x - shift), which moves shift*cost into the model offset. *)
(***************************************************************************)
EXTENDS Integers, Sequences, FiniteSets, TLC

(***************************** numeric domain ******************************)
kHighsInf == 1000000
kHighsIInf == kHighsInf
FEASTOL == 2
ULP == 1
UNIT == 4 * FEASTOL
\* mip_rel_gap is a multiple of 1/RelGapDen
RelGapDen == 2

IsInf(v) == v >= kHighsInf \/ v <= -kHighsInf
\* the element of a one-element set; Only({e(x) : x \in {v}}) is e of the
\* value v, computed once
Only(S) == CHOOSE x \in S : TRUE
Min2(a, b) == IF a <= b THEN a ELSE b
Max2(a, b) == IF a >= b THEN a ELSE b
Abs(a) == IF a < 0 THEN -a ELSE a
\* v + d in IEEE arithmetic for finite d: an infinite v stays infinite
Plus(v, d) == IF IsInf(v) THEN v ELSE v + d
\* ceil(p/q - epsilon) for q > 0, epsilon below the resolution of p/q
CeilDiv(p, q) == -((-p) \div q)
\* std::floor(v + 0.5) for a value v in ticks
FloorHalf(v) == ((2 * v + UNIT) \div (2 * UNIT)) * UNIT
\* std::round(v): halfway cases away from zero
Round(v) == IF v >= 0 THEN FloorHalf(v) ELSE -FloorHalf(-v)

(**************************** the original model ***************************)
\* mipsolver.orig_model_
orig_model_ ==
  [num_col_ |-> 1, num_row_ |-> 1,
   col_lower_ |-> 0, col_upper_ |-> 3 * UNIT, col_cost_ |-> 1,
   row_lower_ |-> UNIT, row_upper_ |-> kHighsInf, a_value_ |-> 1,
   offset_ |-> 0]

\* HighsVarType, the type of the column
kContinuous == "HighsVarType::kContinuous"
kInteger == "HighsVarType::kInteger"
kSemiContinuous == "HighsVarType::kSemiContinuous"
kSemiInteger == "HighsVarType::kSemiInteger"
kImplicitInteger == "HighsVarType::kImplicitInteger"

(******************************* statuses **********************************)
kNotset == "kNotset"
kOptimal == "kOptimal"
kInfeasible == "kInfeasible"
kUnbounded == "kUnbounded"
kUnboundedOrInfeasible == "kUnboundedOrInfeasible"
kInterrupt == "kInterrupt"
kObjectiveTarget == "kObjectiveTarget"
kSolutionLimit == "kSolutionLimit"
kTimeLimit == "kTimeLimit"

VARIABLES
  \* mipsolver.options_mip_, mipsolver.submip, orig_model_->sense_, callback
  options,
  \* objectiveFunction.isIntegral() / integralScale()
  objectiveFunction,
  \* mipsolver.modelstatus_
  modelstatus_,
  lower_bound, upper_bound, upper_limit, optimality_limit,
  \* reduced-space incumbent vector
  incumbent,
  \* mipsolver.solution_ and the data stored with it
  solution_, solution_objective_,
  bound_violation_, integrality_violation_, row_violation_,
  numImprovingSols, pruned_treeweight, num_nodes, num_leaves,
  nodequeue,
  \* mipsolver.model_->offset_ and the postsolve stack's column shift
  offset_, shift,
  numRestarts,
  \* domain.infeasible() and whether domain.getChangedCols() is non-empty
  domain_infeasible, changedCols,
  \* the root LP relaxation: solved (its model status is set), status,
  \* objective and solution of the last solve
  lp,
  \* mipsolver.model_->num_row_ and the number of cuts in cutpool
  num_row_, cutpool,
  \* the index maps of the postsolve stack, reduced index -> original index
  postSolveStack,
  \* the basis the root LP starts from, and mipsolver.rootbasis
  firstrootbasis, rootbasis,
  \* mipsolver.pscostinit: "null", or "dangling" when it points to a local of
  \* a performRestart call that has returned
  pscostinit,
  detectSymmetries, symmetries,
  analyticCenterComputed, analyticCenterStatus, analyticCenter,
  \* mipsolver.timer_.read(solve_clock)
  timer,
  \* what the user's interrupt callback answers when it is asked now
  user_interrupt,
  \* the passes of evaluateRootLp that changed a column bound of the domain,
  \* counted where the domain is taken to be finite
  tightened,
  \* position of the driver: "setup" before the first runSetup, then "solve"
  pc,
  \* the call that was executed last and what was observed of it
  call,
  \* the activation of evaluateRootNode: the statement it is at, the
  \* statement a called function returns to (caller), its locals, the last
  \* percentageInactiveIntegers() and what symData holds
  root,
  \* the task group tg of evaluateRootNode: the state of its two tasks
  tg

dataVars == <<modelstatus_, lower_bound, upper_bound, upper_limit,
              optimality_limit, incumbent, solution_, solution_objective_,
              bound_violation_, integrality_violation_, row_violation_,
              numImprovingSols, pruned_treeweight, num_nodes, num_leaves,
              nodequeue, offset_, shift, numRestarts, domain_infeasible,
              changedCols, lp, num_row_, cutpool, postSolveStack,
              firstrootbasis, rootbasis, pscostinit, detectSymmetries,
              symmetries, analyticCenterComputed, analyticCenterStatus,
              analyticCenter>>
envVars == <<timer, user_interrupt, tightened>>
confVars == <<options, objectiveFunction>>
nodeVars == <<root, tg>>
vars == <<options, objectiveFunction, modelstatus_, lower_bound, upper_bound,
          upper_limit, optimality_limit, incumbent, solution_,
          solution_objective_, bound_violation_, integrality_violation_,
          row_violation_, numImprovingSols, pruned_treeweight, num_nodes,
          num_leaves, nodequeue, offset_, shift, numRestarts,
          domain_infeasible, changedCols, lp, num_row_, cutpool,
          postSolveStack, firstrootbasis, rootbasis, pscostinit,
          detectSymmetries, symmetries, analyticCenterComputed,
          analyticCenterStatus, analyticCenter, timer, user_interrupt,
          tightened, pc, call, root, tg>>

\* the solver data as one record, the form the operations below work on
Cur ==
  [options |-> options, objectiveFunction |-> objectiveFunction,
   modelstatus_ |-> modelstatus_,
   lower_bound |-> lower_bound, upper_bound |-> upper_bound,
   upper_limit |-> upper_limit, optimality_limit |-> optimality_limit,
   incumbent |-> incumbent, solution_ |-> solution_,
   solution_objective_ |-> solution_objective_,
   bound_violation_ |-> bound_violation_,
   integrality_violation_ |-> integrality_violation_,
   row_violation_ |-> row_violation_,
   numImprovingSols |-> numImprovingSols,
   pruned_treeweight |-> pruned_treeweight,
   num_nodes |-> num_nodes, num_leaves |-> num_leaves,
   nodequeue |-> nodequeue, offset_ |-> offset_, shift |-> shift,
   numRestarts |-> numRestarts, domain_infeasible |-> domain_infeasible,
   changedCols |-> changedCols, lp |-> lp,
   num_row_ |-> num_row_, cutpool |-> cutpool,
   postSolveStack |-> postSolveStack,
   firstrootbasis |-> firstrootbasis, rootbasis |-> rootbasis,
   pscostinit |-> pscostinit,
   detectSymmetries |-> detectSymmetries, symmetries |-> symmetries,
   analyticCenterComputed |-> analyticCenterComputed,
   analyticCenterStatus |-> analyticCenterStatus,
   analyticCenter |-> analyticCenter,
   timer |-> timer, user_interrupt |-> user_interrupt]

Becomes(s) ==
  /\ modelstatus_' = s.modelstatus_
  /\ lower_bound' = s.lower_bound
  /\ upper_bound' = s.upper_bound
  /\ upper_limit' = s.upper_limit
  /\ optimality_limit' = s.optimality_limit
  /\ incumbent' = s.incumbent
  /\ solution_' = s.solution_
  /\ solution_objective_' = s.solution_objective_
  /\ bound_violation_' = s.bound_violation_
  /\ integrality_violation_' = s.integrality_violation_
  /\ row_violation_' = s.row_violation_
  /\ numImprovingSols' = s.numImprovingSols
  /\ pruned_treeweight' = s.pruned_treeweight
  /\ num_nodes' = s.num_nodes
  /\ num_leaves' = s.num_leaves
  /\ nodequeue' = s.nodequeue
  /\ offset_' = s.offset_
  /\ shift' = s.shift
  /\ numRestarts' = s.numRestarts
  /\ domain_infeasible' = s.domain_infeasible
  /\ changedCols' = s.changedCols
  /\ lp' = s.lp
  /\ num_row_' = s.num_row_
  /\ cutpool' = s.cutpool
  /\ postSolveStack' = s.postSolveStack
  /\ firstrootbasis' = s.firstrootbasis
  /\ rootbasis' = s.rootbasis
  /\ pscostinit' = s.pscostinit
  /\ detectSymmetries' = s.detectSymmetries
  /\ symmetries' = s.symmetries
  /\ analyticCenterComputed' = s.analyticCenterComputed
  /\ analyticCenterStatus' = s.analyticCenterStatus
  /\ analyticCenter' = s.analyticCenter
  /\ UNCHANGED confVars

(************************ the reduced (current) model **********************)
\* mipsolver.model_ : the original model seen through the column shift
numCol(s) == Len(s.postSolveStack.origColIndex)
colLower(s) == orig_model_.col_lower_ - s.shift
colUpper(s) == orig_model_.col_upper_ - s.shift
rowLower(s) == Plus(orig_model_.row_lower_, -(orig_model_.a_value_ * s.shift))
rowUpper(s) == Plus(orig_model_.row_upper_, -(orig_model_.a_value_ * s.shift))
colCost(s) == s.options.sense * orig_model_.col_cost_
\* the offset of the reduced model that presolve leaves for a column shift
modelOffset(sense, sh) ==
  sense * (orig_model_.offset_ + orig_model_.col_cost_ * sh)
\* postSolveStack.undoPrimal, with the numerical error perr of postsolve
undoPrimal(s, sol, perr) ==
  <<(IF sol = <<>> THEN 0 ELSE sol[1]) + s.shift + perr>>

(************************ feasibility of a candidate ***********************)
solutionColFeasible(s, solution) ==
  /\ Len(solution) = numCol(s)
  /\ \A i \in 1..numCol(s) :
       /\ ~(solution[i] < colLower(s) - FEASTOL)
       /\ ~(solution[i] > colUpper(s) + FEASTOL)
       /\ ~(Abs(solution[i] - FloorHalf(solution[i])) > FEASTOL)

solutionObjective(s, solution) == colCost(s) * solution[1]

\* no row is looked at
rowsNotChecked(s, solution) == TRUE

solutionRowFeasible(s, solution) ==
  LET rowactivity == orig_model_.a_value_ * solution[1]
  IN  /\ ~(rowactivity > rowUpper(s) + FEASTOL)
      /\ ~(rowactivity < rowLower(s) - FEASTOL)

(*************************** computeNewUpperLimit **************************)
\* doubles of magnitude Coarse and more are Spacing apart, wider than the
\* feasibility tolerance; below Coarse every value of the domain is a double
Coarse == 1024
Spacing == 4 * FEASTOL

\* the double nearest to v: the result of an addition or subtraction
fl(v) ==
  IF IsInf(v) \/ Abs(v) < Coarse
  THEN v
  ELSE ((v + Spacing \div 2) \div Spacing) * Spacing

\* the double itself
nextafterSame(x, y) == x

\* std::nextafter(x, y): the double next to x in the direction of y
nextafter(x, y) ==
  IF y < x
  THEN IF x > Coarse \/ x <= -Coarse THEN x - Spacing ELSE x - ULP
  ELSE IF y > x
       THEN IF x >= Coarse \/ x < -Coarse THEN x + Spacing ELSE x + ULP
       ELSE x

\* the cutoff is the upper bound itself
upperBoundAsLimit(s, ub, mip_abs_gap, mip_rel_gap) == ub

computeNewUpperLimit(s, ub, mip_abs_gap, mip_rel_gap) ==
  IF s.objectiveFunction.isIntegral
  THEN LET G == s.objectiveFunction.step
           l0 == ((2 * ub - G) \div (2 * G)) * G
           l1 == IF mip_rel_gap # 0
                 THEN Min2(l0, ub - CeilDiv(mip_rel_gap * Abs(ub + s.offset_),
                                            RelGapDen * G) * G)
                 ELSE l0
           l2 == IF mip_abs_gap # 0
                 THEN Min2(l1, ub - CeilDiv(mip_abs_gap, G) * G)
                 ELSE l1
       IN  l2 + FEASTOL
  ELSE LET l0 == Min2(fl(ub - FEASTOL), nextafter(ub, -kHighsInf))
           l1 == IF mip_rel_gap # 0
                 THEN Min2(l0, (RelGapDen * ub
                                - mip_rel_gap * Abs(ub + s.offset_))
                               \div RelGapDen)
                 ELSE l0
           l2 == IF mip_abs_gap # 0 THEN Min2(l1, ub - mip_abs_gap) ELSE l1
       IN  l2

(****************** transformNewIntegerFeasibleSolution ********************)
\* the three violation measures of an original-space solution x, as the
\* loops over the columns and rows of orig_model_ compute them
integralityViolation(x) == Abs(FloorHalf(x[1]) - x[1])

boundViolation(x) ==
  IF x[1] < orig_model_.col_lower_ - FEASTOL
  THEN orig_model_.col_lower_ - x[1]
  ELSE IF x[1] > orig_model_.col_upper_ + FEASTOL
       THEN x[1] - orig_model_.col_upper_
       ELSE 0

rowViolation(x) ==
  LET value == orig_model_.a_value_ * x[1]
  IN  IF value < Plus(orig_model_.row_lower_, -FEASTOL)
      THEN orig_model_.row_lower_ - value
      ELSE IF value > Plus(orig_model_.row_upper_, FEASTOL)
           THEN value - orig_model_.row_upper_
           ELSE 0

\* the row violation is left out of the verdict
boundsAndIntegralityFeasible(x) ==
  /\ boundViolation(x) <= FEASTOL
  /\ integralityViolation(x) <= FEASTOL

\* feasible = bound, integrality and row violation within the tolerance
violationsFeasible(x) ==
  /\ boundViolation(x) <= FEASTOL
  /\ integralityViolation(x) <= FEASTOL
  /\ rowViolation(x) <= FEASTOL

\* the objective of x in the original space, offset included
originalObjective(x) == orig_model_.offset_ + orig_model_.col_cost_ * x[1]

\* the objective in the transformed space (the two return statements)
transformedObjective(s, x) ==
  IF s.options.sense = -1
  THEN -(originalObjective(x) + s.offset_)
  ELSE originalObjective(x) - s.offset_

\* nothing stored counts as feasible
nothingStoredFeasible(s) == FALSE

\* the solution stored in mipsolver is feasible
currentFeasible(s) ==
  /\ s.solution_objective_ # kHighsInf
  /\ s.bound_violation_ <= FEASTOL
  /\ s.integrality_violation_ <= FEASTOL
  /\ s.row_violation_ <= FEASTOL

\* the violation checks after which the loop of try_again is followed no
\* further
MaxChecks == 3

\* the flag stays as it is after a feasible repair
allowKept(allow_try_again) == allow_try_again

\* allow_try_again = false, before goto try_again
allowAfterRepair(allow_try_again) == FALSE

\* the loop formed by the label try_again: the violations of the solution
\* are computed (checks counts the passes); if it is not feasible and
\* allow_try_again holds, the LP with the integer columns fixed is solved
\* (repairs counts the runs) and, if that LP is feasible, its solution is
\* checked again
RECURSIVE tryAgain(_, _, _, _, _)
tryAgain(solution, repair, allow_try_again, checks, repairs) ==
  IF ~violationsFeasible(solution) /\ allow_try_again
  THEN IF repair.feasible /\ checks < MaxChecks
       THEN tryAgain(repair.x, repair, allowAfterRepair(allow_try_again),
                     checks + 1, repairs + 1)
       ELSE [solution |-> solution, feasible |-> FALSE, checks |-> checks,
             repairs |-> repairs + 1]
  ELSE [solution |-> solution, feasible |-> violationsFeasible(solution),
        checks |-> checks, repairs |-> repairs]

\* post: the solution undoPrimal produced; repair: what the LP with the
\* integer columns fixed returned ([feasible, x]).  The result is the new
\* solver data, the returned objective, the final feasibility verdict and the
\* number of violation checks and repair attempts made.
transformNewIntegerFeasibleSolution(s, post, possibly_store, repair) ==
  LET t == Only({r : r \in {tryAgain(post, repair, TRUE, 1, 0)}})
      solution == t.solution
      feasible == t.feasible
      stored == [s EXCEPT !.row_violation_ = rowViolation(solution),
                          !.bound_violation_ = boundViolation(solution),
                          !.integrality_violation_ =
                              integralityViolation(solution),
                          !.solution_ = solution,
                          !.solution_objective_ = originalObjective(solution)]
      checks == t.checks
      repairs == t.repairs
  IN  IF possibly_store
      THEN IF feasible
           THEN [s |-> stored, ret |-> transformedObjective(s, solution),
                 feasible |-> TRUE, checks |-> checks, repairs |-> repairs]
           ELSE [s |-> IF ~currentFeasible(s) THEN stored ELSE s,
                 ret |-> kHighsInf,
                 feasible |-> FALSE, checks |-> checks, repairs |-> repairs]
      ELSE [s |-> s, ret |-> transformedObjective(s, solution),
            feasible |-> feasible, checks |-> checks, repairs |-> repairs]

(******************************* node queue ********************************)
\* nodequeue.performBounding(upper_limit): drops the open nodes whose lower
\* bound exceeds the limit and returns the tree weight they carried
performBounding(queue, limit) ==
  LET keep(n) == ~(n.lower_bound > limit)
      kept == SelectSeq(queue, keep)
      RECURSIVE weight(_)
      weight(q) == IF q = <<>> THEN 0
                   ELSE (IF keep(Head(q)) THEN 0 ELSE Head(q).weight)
                        + weight(Tail(q))
  IN  [queue |-> kept, weight |-> weight(queue)]

(******************************* addIncumbent ******************************)
\* no transformed objective is turned away
neverRejected(solobj, ub) == FALSE

\* the transformed objective does not improve on the upper bound
notImproving(solobj, ub) == solobj >= ub

\* optimality_limit is left as it was
gapLimitKept(s, solobj) == s.optimality_limit

\* computeNewUpperLimit(solobj, mip_abs_gap, mip_rel_gap)
gapLimit(s, solobj) ==
  computeNewUpperLimit(s, solobj, s.options.mip_abs_gap, s.options.mip_rel_gap)

\* the candidate replaces the reduced-space incumbent whatever it holds
incumbentReplaced(incumbent0, sol) == sol

\* else if (incumbent.empty()) incumbent = sol
incumbentIfEmpty(incumbent0, sol) ==
  IF incumbent0 = <<>> THEN sol ELSE incumbent0

\* every new cutoff replaces the current one
anyLimit(new_upper_limit, limit) == TRUE

\* the new cutoff is below the current one
limitImproves(new_upper_limit, limit) == new_upper_limit < limit

\* ext: what the collaborators return during the call: post and repair for
\* the transformation, domain for the outcome of the propagation of the new
\* cutoff ("unchanged", "changed": some column bound was tightened,
\* "propagate": domain.propagate or the root reduced cost fixing finds the
\* domain infeasible, "cliques": extractObjCliques does)
addIncumbent(s, sol, solobj0, ext) ==
  LET execute_mip_solution_callback ==
        /\ ~s.options.submip
        /\ s.options.user_callback /\ s.options.callback_mip_solution
      possibly_store_as_new_incumbent == solobj0 < s.upper_bound
      get_transformed_solution ==
        possibly_store_as_new_incumbent \/ execute_mip_solution_callback
      \* t: the transformation's result; s2: upper_bound and incumbent assigned
      accept(t, s2) ==
        LET solobj == t.ret
            new_upper_limit == computeNewUpperLimit(s2, solobj, 0, 0)
            s3 == [s2 EXCEPT
                     !.numImprovingSols = @ + 1,
                     !.upper_limit = new_upper_limit,
                     !.optimality_limit = gapLimit(s2, solobj)]
            infeasible1 == s.domain_infeasible \/ ext.domain = "propagate"
            infeasible2 == ext.domain = "cliques"
            b == performBounding(s2.nodequeue, new_upper_limit)
        IN  IF limitImproves(new_upper_limit, s2.upper_limit)
            THEN IF infeasible1 \/ infeasible2
                 THEN [s |-> [s3 EXCEPT !.domain_infeasible = TRUE,
                                        !.pruned_treeweight = 1,
                                        !.nodequeue = <<>>],
                       ret |-> TRUE, stored |-> TRUE]
                 ELSE [s |-> [s3 EXCEPT
                                !.changedCols = @ \/ ext.domain = "changed",
                                !.pruned_treeweight = @ + b.weight,
                                !.nodequeue = b.queue],
                       ret |-> TRUE, stored |-> TRUE]
            ELSE [s |-> s2, ret |-> TRUE, stored |-> TRUE]
  IN  IF possibly_store_as_new_incumbent
      THEN Only({IF notImproving(t.ret, t.s.upper_bound)
                 THEN [s |-> t.s, ret |-> FALSE, stored |-> FALSE]
                 ELSE Only({accept(t, s2) :
                              s2 \in {[t.s EXCEPT !.upper_bound = t.ret,
                                                  !.incumbent = sol]}}) :
                   t \in {transformNewIntegerFeasibleSolution(
                              s, ext.post, TRUE, ext.repair)}})
      ELSE Only({[s |-> [u EXCEPT !.incumbent = incumbentIfEmpty(@, sol)],
                  ret |-> TRUE, stored |-> u.incumbent = <<>>] :
                   u \in {IF get_transformed_solution
                          THEN transformNewIntegerFeasibleSolution(
                                   s, ext.post, FALSE, ext.repair).s
                          ELSE s}})

(******************************** trySolution ******************************)
trySolution(s, solution, ext) ==
  IF ~solutionColFeasible(s, solution)
  THEN [s |-> s, ret |-> FALSE, stored |-> FALSE]
  ELSE IF ~solutionRowFeasible(s, solution)
  THEN [s |-> s, ret |-> FALSE, stored |-> FALSE]
  ELSE addIncumbent(s, solution, solutionObjective(s, solution), ext)

(******************************** checkLimits ******************************)
\* the conditions of the if statements, in the order of the code
userInterrupt(s) ==
  /\ ~s.options.submip /\ s.options.user_callback
  /\ s.options.callback_mip_interrupt /\ s.user_interrupt

reached_objective_target(s) ==
  LET int_sense == s.options.sense
  IN  /\ ~s.options.submip
      /\ s.solution_objective_ < kHighsInf
      /\ s.options.objective_target > -kHighsInf
      /\ int_sense * s.solution_objective_
           < int_sense * s.options.objective_target

nodeLimit(s, nodeOffset) ==
  /\ s.options.mip_max_nodes # kHighsIInf
  /\ s.num_nodes + nodeOffset >= s.options.mip_max_nodes

leafLimit(s) ==
  /\ s.options.mip_max_leaves # kHighsIInf
  /\ s.num_leaves >= s.options.mip_max_leaves

improvingSolLimit(s) ==
  /\ s.options.mip_max_improving_sols # kHighsIInf
  /\ s.numImprovingSols >= s.options.mip_max_improving_sols

timeLimit(s) == s.timer >= s.options.time_limit

\* the time limit is looked at first
limitReachedTimeFirst(s, nodeOffset) ==
  IF timeLimit(s) THEN kTimeLimit
  ELSE IF userInterrupt(s) THEN kInterrupt
  ELSE IF reached_objective_target(s) THEN kObjectiveTarget
  ELSE IF nodeLimit(s, nodeOffset) THEN kSolutionLimit
  ELSE IF leafLimit(s) THEN kSolutionLimit
  ELSE IF improvingSolLimit(s) THEN kSolutionLimit
  ELSE kNotset

\* the status of the first if statement whose condition holds, kNotset if
\* none does
limitReached(s, nodeOffset) ==
  IF userInterrupt(s) THEN kInterrupt
  ELSE IF reached_objective_target(s) THEN kObjectiveTarget
  ELSE IF nodeLimit(s, nodeOffset) THEN kSolutionLimit
  ELSE IF leafLimit(s) THEN kSolutionLimit
  ELSE IF improvingSolLimit(s) THEN kSolutionLimit
  ELSE IF timeLimit(s) THEN kTimeLimit
  ELSE kNotset

\* the status is assigned whatever it was
overwriteStatus(s, status) == [s EXCEPT !.modelstatus_ = status]

\* if (mipsolver.modelstatus_ == kNotset) mipsolver.modelstatus_ = status
setStatus(s, status) ==
  IF s.modelstatus_ = kNotset THEN [s EXCEPT !.modelstatus_ = status] ELSE s

checkLimits(s, nodeOffset) ==
  LET status == limitReached(s, nodeOffset)
  IN  IF status # kNotset
      THEN [s |-> setStatus(s, status), ret |-> TRUE]
      ELSE [s |-> s, ret |-> FALSE]

(********************************* runSetup ********************************)
\* postSolveStack.getReducedPrimalSolution
getReducedPrimalSolution(s, x) ==
  IF numCol(s) = 0 THEN <<>> ELSE <<x[1] - s.shift>>

(*************************** basis and index maps **************************)
kLower == "HighsBasisStatus::kLower"
kBasic == "HighsBasisStatus::kBasic"
kUpper == "HighsBasisStatus::kUpper"
kNonbasic == "HighsBasisStatus::kNonbasic"

\* a basis that is not valid
NoBasis == [valid |-> FALSE, col_status |-> <<>>, row_status |-> <<>>]

\* mipsolver.rootbasis == nullptr
NullBasis ==
  [null |-> TRUE, dangling |-> FALSE, col_status |-> <<>>, row_status |-> <<>>]

\* postSolveStack.initializeIndexMaps(numRow, numCol)
initializeIndexMaps(num_row, num_col) ==
  [origNumCol |-> num_col, origNumRow |-> num_row,
   origColIndex |-> [i \in 1..num_col |-> i],
   origRowIndex |-> [i \in 1..num_row |-> i]]

\* postSolveStack.appendCutsToModel(numCuts): the cuts become rows of the
\* model presolve works on, with original indices of their own
appendCutsToModel(stack, numCuts) ==
  [stack EXCEPT
     !.origRowIndex = @ \o [i \in 1..numCuts |-> stack.origNumRow + i],
     !.origNumRow = @ + numCuts]

\* postSolveStack.removeCutsFromModel(numCuts)
removeCutsFromModel(stack, numCuts) ==
  [stack EXCEPT
     !.origRowIndex = SelectSeq(@, LAMBDA k : k <= stack.origNumRow - numCuts),
     !.origNumRow = @ - numCuts]

\* the statuses are handed over by position, not through the index maps
transferByPosition(basis, index, size) ==
  [i \in 1..size |-> IF i <= Len(basis) THEN basis[i] ELSE kNonbasic]

\* the loops of basisTransfer: the status of the reduced index i is the one
\* the root basis has at the original index of i
transferByIndex(basis, index, size) == [i \in 1..size |-> basis[index[i]]]

\* the root basis in the original space that performRestart builds from a
\* valid first root basis of the model with num_col columns
expandBasis(basis, stack, num_col) ==
  [null |-> FALSE, dangling |-> FALSE,
   col_status |->
     [k \in 1..stack.origNumCol |->
        IF \E i \in 1..num_col : stack.origColIndex[i] = k
        THEN basis.col_status[CHOOSE i \in 1..num_col :
                                stack.origColIndex[i] = k]
        ELSE kLower],
   row_status |->
     [k \in 1..stack.origNumRow |->
        IF \E i \in 1..Len(basis.row_status) : stack.origRowIndex[i] = k
        THEN basis.row_status[CHOOSE i \in 1..Len(basis.row_status) :
                                stack.origRowIndex[i] = k]
        ELSE kBasic]]

\* HighsMipSolverData::basisTransfer
basisTransfer(s) ==
  IF s.rootbasis.null THEN s
  ELSE [s EXCEPT
          !.firstrootbasis =
              [valid |-> TRUE,
               col_status |->
                 transferByIndex(s.rootbasis.col_status,
                                 s.postSolveStack.origColIndex,
                                 numCol(s)),
               row_status |->
                 transferByIndex(s.rootbasis.row_status,
                                 s.postSolveStack.origRowIndex, s.num_row_)]]

(********************************* runSetup ********************************)
\* the limits and bounds in the space of the current model
notAllConverted(s) ==
  [s EXCEPT !.upper_limit = Plus(@, -s.offset_),
            !.optimality_limit = Plus(@, -s.offset_),
            !.upper_bound = Plus(@, -s.offset_)]

toModelSpace(s) ==
  [s EXCEPT !.upper_limit = Plus(@, -s.offset_),
            !.optimality_limit = Plus(@, -s.offset_),
            !.lower_bound = Plus(@, -s.offset_),
            !.upper_bound = Plus(@, -s.offset_)]

\* case HighsVarType::kSemiContinuous, case HighsVarType::kSemiInteger of the
\* loop over the columns
unexpectedType(s) == s.options.integrality \in {kSemiContinuous, kSemiInteger}

\* a model without columns is searched like any other
neverSolvedAtSetup(s) == FALSE

\* if (model.num_col_ == 0): nothing is left to search
solvedAtSetup(s) == numCol(s) = 0

\* ext.setupInfeasible: the first propagation of all rows finds the domain
\* infeasible; ext.numBin: the number of binary columns of the model.
\* exit names the way runSetup is left: the return statement after the
\* propagation ("infeasible"), for a model without columns ("solved"), after
\* checkLimits ("limit"), at the end ("return"), or the exception ("throw")
runSetupExit(s, ext) ==
  LET o == s.options
      s0 == toModelSpace(s)
      \* the MIP start: s1 has the incumbent, s2 the new upper_bound
      start(s1) ==
        LET solobj == s1.solution_objective_ * o.sense - s1.offset_
            feasible == /\ s1.bound_violation_ <= FEASTOL
                        /\ s1.integrality_violation_ <= FEASTOL
                        /\ s1.row_violation_ <= FEASTOL
            s2 == [s1 EXCEPT !.upper_bound = solobj]
            new_upper_limit == computeNewUpperLimit(s2, solobj, 0, 0)
        IN  IF feasible /\ solobj < s1.upper_bound
            THEN IF limitImproves(new_upper_limit, s2.upper_limit)
                 THEN [s2 EXCEPT
                         !.upper_limit = new_upper_limit,
                         !.optimality_limit =
                             computeNewUpperLimit(s2, solobj, o.mip_abs_gap,
                                                  o.mip_rel_gap)]
                 ELSE s2
            ELSE s1
      s4 == IF s.solution_objective_ # kHighsInf
            THEN Only({start(s1) :
                         s1 \in {[s0 EXCEPT !.incumbent =
                                   getReducedPrimalSolution(s0, s0.solution_)]}})
            ELSE s0
      \* from the propagation of the rows to the end
      finish(s5, cl) ==
        IF s5.domain_infeasible \/ ext.setupInfeasible
        THEN [s |-> [s5 EXCEPT !.domain_infeasible = TRUE,
                               !.modelstatus_ = kInfeasible,
                               !.lower_bound = kHighsInf,
                               !.pruned_treeweight = 1],
              exit |-> "infeasible"]
        ELSE IF solvedAtSetup(s)
        THEN [s |-> [s5 EXCEPT !.modelstatus_ = kOptimal], exit |-> "solved"]
        ELSE IF cl.ret THEN [s |-> cl.s, exit |-> "limit"]
        ELSE IF unexpectedType(s)
        THEN [s |-> [cl.s EXCEPT !.changedCols = FALSE], exit |-> "throw"]
        ELSE [s |-> Only({[s6 EXCEPT
                             !.changedCols = FALSE,
                             !.detectSymmetries = @ /\ ext.numBin > 0,
                             !.analyticCenterComputed =
                                 @ /\ cl.s.upper_limit # kHighsInf,
                             !.analyticCenterStatus = kNotset,
                             !.analyticCenter = <<>>,
                             !.symmetries = "none"] :
                            s6 \in {basisTransfer(cl.s)}}),
              exit |-> "return"]
  IN  Only({Only({finish(s5, cl) : cl \in {checkLimits(s5, 0)}}) :
              s5 \in {IF numCol(s) = 0 THEN addIncumbent(s4, <<>>, 0, ext).s
                      ELSE s4}})

\* HighsMipSolverData::runSetup: the solver data it leaves
runSetup(s, ext) == runSetupExit(s, ext).s

(****************************** performRestart ****************************)
\* the limits and bounds in the original space, as presolve expects them
toOriginalSpace(s) ==
  [s EXCEPT !.upper_limit = Plus(@, s.offset_),
            !.optimality_limit = Plus(@, s.offset_),
            !.upper_bound = Plus(@, s.offset_),
            !.lower_bound = Plus(@, s.offset_)]

\* ext.presolve: what runPresolve leaves: the model status, the column shift
\* and the index maps on the postsolve stack, the offset and the number of
\* rows of the new reduced model and the cuts it put into the cut pool;
\* ext.post/ext.repair: postsolve of the empty solution when presolve solved
\* the model; ext.setupInfeasible, ext.numBin: as for runSetup.
\* The result names the return statement taken (exit), the number of cuts
\* folded into the model (numCuts) and the limits and bounds runSetup
\* converted to the new model (converted).
\* the weight of the pruned part of the tree is kept over the restart
treeWeightKept(s) == [s EXCEPT !.incumbent = <<>>, !.nodequeue = <<>>]

\* incumbent.clear(); pruned_treeweight = 0; nodequeue.clear()
clearSearch(s) ==
  [s EXCEPT !.incumbent = <<>>, !.pruned_treeweight = 0, !.nodequeue = <<>>]

performRestart(s, ext) ==
  LET numLpRows == s.lp.num_row_
      numModelRows == s.num_row_
      numCuts == numLpRows - numModelRows
      basis == s.firstrootbasis
      folded == IF numCuts > 0
                THEN appendCutsToModel(s.postSolveStack, numCuts)
                ELSE s.postSolveStack
      s0 == [clearSearch(toOriginalSpace(s)) EXCEPT
               !.numRestarts = @ + 1,
               !.postSolveStack = folded,
               \* mipsolver.pscostinit = &pscostinit
               !.pscostinit = "local",
               !.rootbasis = IF basis.valid
                             THEN expandBasis(basis, folded, numCol(s))
                             ELSE @]
      \* presolve ended with a model status: s2 has the limits of the new
      \* model
      solved(s2) ==
        LET s3 == IF s2.modelstatus_ = kOptimal
                  THEN transformNewIntegerFeasibleSolution(
                           [s2 EXCEPT !.upper_bound = 0], ext.post, TRUE,
                           ext.repair).s
                  ELSE [s2 EXCEPT !.upper_bound = Plus(@, -s2.offset_)]
        IN  Only({IF s4.solution_objective_ # kHighsInf
                     /\ s4.modelstatus_ = kInfeasible
                  THEN [s4 EXCEPT !.modelstatus_ = kOptimal]
                  ELSE s4 :
                    s4 \in {[s3 EXCEPT
                               !.lower_bound = s3.upper_bound,
                               \* the pointers outlive the locals pscostinit
                               \* and root_basis
                               !.pscostinit = "dangling",
                               !.rootbasis =
                                   IF basis.valid
                                   THEN [@ EXCEPT !.dangling = TRUE]
                                   ELSE @]}})
      \* runSetup and what follows it; s1 is the data after runPresolve
      setup(s1) ==
        Only({[s |-> [s5 EXCEPT
                        !.postSolveStack = removeCutsFromModel(@, numCuts),
                        !.rootbasis = IF basis.valid THEN NullBasis ELSE @,
                        !.pscostinit = "null"],
               exit |-> "setup", numCuts |-> numCuts,
               converted |-> toModelSpace(s1)] :
                s5 \in {runSetup(s1, ext)}})
  IN  \* runPresolve
      Only({IF s1.modelstatus_ # kNotset
            THEN Only({[s |-> solved(s2), exit |-> "presolve",
                        numCuts |-> numCuts, converted |-> s2] :
                         s2 \in {[s1 EXCEPT
                                    !.upper_limit = Plus(@, -s1.offset_),
                                    !.optimality_limit =
                                        Plus(@, -s1.offset_)]}})
            ELSE setup(s1) :
              s1 \in {[s0 EXCEPT
                         !.modelstatus_ = ext.presolve.status,
                         !.shift = ext.presolve.shift,
                         !.offset_ = ext.presolve.offset,
                         !.num_row_ = ext.presolve.num_row_,
                         !.cutpool = ext.presolve.cutpool,
                         !.postSolveStack =
                             [@ EXCEPT
                                !.origColIndex = ext.presolve.origColIndex,
                                !.origRowIndex = ext.presolve.origRowIndex],
                         !.domain_infeasible = FALSE]}})

(****************************** evaluateRootLp *****************************)
kLpOptimal == "Status::kOptimal"
kLpInfeasible == "Status::kInfeasible"
kLpUnbounded == "Status::kUnbounded"
kLpUnscaledDualFeasible == "Status::kUnscaledDualFeasible"
kLpUnscaledPrimalFeasible == "Status::kUnscaledPrimalFeasible"
kLpError == "Status::kError"
kLpNotSet == "Status::kNotSet"

unscaledDualFeasible(status) ==
  status = kLpOptimal \/ status = kLpUnscaledDualFeasible

\* lp.getFractionalIntegers() of an LP solution x is non-empty
fractionalIntegers(x) == Abs(x[1] - FloorHalf(x[1])) > FEASTOL

\* the root is never pruned by the bound
neverPruned(lb, limit) == FALSE

\* lower_bound > optimality_limit
exceedsLimit(lb, limit) == lb > limit

\* the tree is pruned, nothing is counted
prunedOnly(r) == [r EXCEPT !.pruned_treeweight = 1]

\* pruned_treeweight = 1.0; num_nodes += 1; num_leaves += 1
leaf(r) ==
  [r EXCEPT !.pruned_treeweight = 1, !.num_nodes = @ + 1,
            !.num_leaves = @ + 1]

\* the loop ends after every pass
alwaysFixedPoint(r) == TRUE

\* the loop never finds the changed columns empty
neverFixedPoint(r) == FALSE

\* domain.getChangedCols().empty()
fixedPoint(r) == ~r.changedCols

\* the result of addIncumbent is not looked at
acceptedAnyway(inc) == TRUE

\* the value of the call addIncumbent(...) in the condition of the if
accepted(inc) == inc.ret

\* One pass of the do-while loop.  ext.propagate: outcome of domain.propagate
\* and orbital fixing ("unchanged", "changed", "infeasible"); ext.status and
\* ext.sol: what lp.resolveLp returns if it is called; ext.redcost: whether
\* the root reduced cost fixing tightens a bound; ext.inc: the collaborators'
\* results for addIncumbent.  exit names the return statement taken, or
\* "continue" for another pass; resolved tells whether lp.resolveLp ran.
evaluateRootLpPass(s, ext) ==
  LET infeasible == s.domain_infeasible \/ ext.propagate = "infeasible"
      changed == s.changedCols \/ ext.propagate = "changed"
      lpBoundsChanged == changed
      lpWasSolved == lpBoundsChanged \/ ~s.lp.solved
      \* integral: the LP was solved to optimality without fractional integers
      integral(status) ==
        lpWasSolved /\ status = kLpOptimal /\ ~fractionalIntegers(ext.sol)
      \* from the test of the LP status for infeasibility to the end; s1b is
      \* the data after addIncumbent, if it was called, returned false
      bound(s1b) ==
        LET status == s1b.lp.status
            s2b == IF unscaledDualFeasible(status)
                   THEN [s1b EXCEPT
                           !.lower_bound = Max2(s1b.lp.objective, @),
                           !.changedCols =
                               @ \/ (lpWasSolved /\ ext.redcost
                                     /\ s1b.upper_limit # kHighsInf)]
                   ELSE s1b
        IN  IF status = kLpInfeasible
            THEN [s |-> leaf([s1b EXCEPT
                                !.lower_bound = Min2(kHighsInf,
                                                     s1b.upper_bound)]),
                  ret |-> status, exit |-> "lp"]
            ELSE Only({IF exceedsLimit(r.lower_bound, r.optimality_limit)
                       THEN [s |-> leaf(r), ret |-> kLpInfeasible,
                             exit |-> "pruned"]
                       ELSE IF fixedPoint(r)
                       THEN [s |-> r, ret |-> status, exit |-> "normal"]
                       ELSE [s |-> r, ret |-> status, exit |-> "continue"] :
                         r \in {s2b}})
      \* from the test of the LP status for unboundedness on; s1 is the data
      \* after removeFixedIndices, lp.flushDomain and lp.resolveLp
      solved(s1) ==
        IF lpWasSolved /\ s1.lp.status = kLpUnbounded
        THEN [s |-> leaf([s1 EXCEPT
                            !.modelstatus_ =
                                IF s1.solution_ = <<>>
                                THEN kUnboundedOrInfeasible ELSE kUnbounded]),
              ret |-> s1.lp.status, exit |-> "unbounded"]
        ELSE IF integral(s1.lp.status)
        THEN Only({IF accepted(inc)
                   THEN [s |-> leaf([inc.s EXCEPT
                                       !.modelstatus_ = kOptimal,
                                       !.lower_bound = inc.s.upper_bound]),
                         ret |-> kLpInfeasible, exit |-> "optimal"]
                   ELSE bound(inc.s) :
                     inc \in {addIncumbent(s1, ext.sol, s1.lp.objective,
                                          ext.inc)}})
        ELSE bound(s1)
  IN  IF infeasible
      THEN [s |-> leaf([s EXCEPT !.domain_infeasible = TRUE,
                                 !.changedCols = changed,
                                 !.lower_bound = Min2(kHighsInf,
                                                      s.upper_bound)]),
            ret |-> kLpInfeasible, exit |-> "domain", resolved |-> FALSE]
      ELSE Only({[resolved |-> lpWasSolved] @@ solved(s1) :
                   s1 \in {IF lpWasSolved
                           THEN [s EXCEPT
                                   !.changedCols = FALSE,
                                   !.lp = [@ EXCEPT
                                           !.solved = TRUE,
                                           !.status = ext.status,
                                           !.sol = ext.sol,
                                           !.objective =
                                             solutionObjective(s, ext.sol)]]
                           ELSE [s EXCEPT !.changedCols = changed]}})

(***************************************************************************)
(* Bounds of the model and the inputs the environment draws from           *)
(***************************************************************************)
\* the clock is read at 0..MaxTime; at most MaxRestarts restarts are made
MaxTime == 2
MaxRestarts == 1

\* values a column takes in the candidates (original space): violating the
\* row, integral at the tolerance, integral, fractional, integral, violating
\* the upper bound
ColValues == {0, 3 * FEASTOL, UNIT, UNIT + 2 * FEASTOL, 2 * UNIT,
              3 * UNIT + 2 * FEASTOL}
\* numerical error of postsolve
PostErrors == {0, 2 * FEASTOL}
\* column shifts presolve may leave
Shifts == {0, UNIT}

NoRepair == [feasible |-> FALSE, x |-> <<0>>]
\* outcomes of the repair LP for the solution post: not feasible, the integer
\* column at its rounded value, or a point the outer check rejects again
Repairs(post) ==
  IF violationsFeasible(post) THEN {NoRepair}
  ELSE {NoRepair,
        [feasible |-> TRUE, x |-> <<Round(post[1])>>],
        [feasible |-> TRUE, x |-> <<Round(post[1]) + 2 * FEASTOL>>]}

DomainOutcomes == {"unchanged", "changed", "propagate", "cliques"}

\* collaborators' results for one addIncumbent call on the candidate sol
IncumbentExts(s, sol, errors) ==
  UNION {{[post |-> undoPrimal(s, sol, e), repair |-> r, domain |-> d,
           setupInfeasible |-> FALSE] :
            r \in Repairs(undoPrimal(s, sol, e)), d \in DomainOutcomes} :
         e \in errors}

NoLimits ==
  [submip |-> FALSE, sense |-> 1, integrality |-> kInteger, presolve |-> TRUE,
   user_callback |-> FALSE, callback_mip_solution |-> FALSE,
   callback_mip_interrupt |-> FALSE, mip_detect_symmetry |-> FALSE,
   mip_trivial_heuristics |-> "off",
   objective_bound |-> kHighsInf, objective_target |-> -kHighsInf,
   mip_abs_gap |-> 0, mip_rel_gap |-> 0,
   mip_max_nodes |-> kHighsIInf, mip_max_leaves |-> kHighsIInf,
   mip_max_improving_sols |-> kHighsIInf, time_limit |-> kHighsInf]

NonIntegral == [isIntegral |-> FALSE, step |-> 0]
Integral(step) == [isIntegral |-> TRUE, step |-> step]

\* a solve: options, objective function, MIP start (<<>> for none) and the
\* column shift of the first presolve
Config(o, of, start, sh) ==
  [options |-> o, objectiveFunction |-> of, start |-> start, shift |-> sh]

Maximize == [NoLimits EXCEPT !.sense = -1, !.mip_abs_gap = UNIT,
                             !.mip_rel_gap = 1, !.user_callback = TRUE,
                             !.callback_mip_solution = TRUE]
SubMip == [NoLimits EXCEPT !.submip = TRUE, !.mip_rel_gap = 1,
                           !.objective_bound = 2 * UNIT]

\* the solves that exercise the incumbent and bound manager
BoundConfigs ==
  {Config(NoLimits, NonIntegral, <<>>, 0),
   Config(NoLimits, Integral(UNIT), <<2 * UNIT>>, UNIT),
   Config(NoLimits, Integral(FEASTOL), <<>>, 0),
   Config(Maximize, Integral(2 * FEASTOL), <<UNIT + 2 * FEASTOL>>, 0),
   Config(Maximize, NonIntegral, <<>>, UNIT),
   Config(SubMip, Integral(UNIT), <<>>, 0),
   Config(SubMip, NonIntegral, <<3 * UNIT>>, UNIT)}

(***************************************************************************)
(* call: the operation executed last, its result and what an observer of   *)
(* the call knows about its candidate, measured independently of the       *)
(* solver: stored (the call assigned the incumbent), verdict (whether the  *)
(* solution the transformation ended with satisfies the original model     *)
(* within the tolerance; "none" if no transformation stored anything) and  *)
(* defect (the defect of trySolution's candidate in the reduced model),    *)
(* nodeOffset (the argument of checkLimits), statusSet (the checkLimits    *)
(* call assigned the model status) and exit (the return statement          *)
(* evaluateRootLp left through)                                            *)
(***************************************************************************)
NoCall(op) ==
  [op |-> op, ret |-> FALSE, stored |-> FALSE, verdict |-> "none",
   defect |-> "none", nodeOffset |-> 0, statusSet |-> FALSE,
   exit |-> "none", numCuts |-> 0, converted |-> <<>>, step |-> "none",
   at |-> "none", touches |-> {}, checks |-> 0, repairs |-> 0,
   args |-> <<>>, value |-> <<>>, resolved |-> FALSE]

\* distance of x to the interval [lo, up]
Outside(x, lo, up) == IF x < lo THEN lo - x ELSE IF x > up THEN x - up ELSE 0
\* distance of x to the nearest integer
FromInteger(x) == LET r == x % UNIT IN Min2(r, UNIT - r)

\* x satisfies the original model within the feasibility tolerance
WithinTolerance(x) ==
  /\ Outside(x[1], orig_model_.col_lower_, orig_model_.col_upper_) <= FEASTOL
  /\ FromInteger(x[1]) <= FEASTOL
  /\ Outside(orig_model_.a_value_ * x[1], orig_model_.row_lower_,
             orig_model_.row_upper_) <= FEASTOL

\* the solution the transformation ends with: the repaired one if the
\* postsolved one is rejected and the repair LP is feasible
FinalCandidate(ext) ==
  IF ~WithinTolerance(ext.post) /\ ext.repair.feasible
  THEN ext.repair.x ELSE ext.post

\* the defect trySolution rejects the candidate for, "none" if it has none
Defect(sol, sh) ==
  IF Len(sol) # orig_model_.num_col_ THEN "length"
  ELSE IF Outside(sol[1], orig_model_.col_lower_ - sh,
                  orig_model_.col_upper_ - sh) > FEASTOL THEN "column"
  ELSE IF FromInteger(sol[1]) > FEASTOL THEN "integrality"
  ELSE IF Outside(orig_model_.a_value_ * sol[1],
                  Plus(orig_model_.row_lower_, -(orig_model_.a_value_ * sh)),
                  Plus(orig_model_.row_upper_, -(orig_model_.a_value_ * sh)))
            > FEASTOL THEN "row"
  ELSE "none"

\* evaluateRootNode is not running; no task is spawned
NoRoot ==
  [at |-> "idle", caller |-> "none", status |-> kLpNotSet,
   maxSepaRounds |-> 0, stall |-> 0, nseparounds |-> 0, ncuts |-> 0,
   separate |-> FALSE, fixingRate |-> 0, symData |-> "null", ran |-> <<>>]
NoTasks == [symmetry |-> "none", analyticCenter |-> "none"]

InitBounds(c, stack, basis, rows, cuts, at, lb, ub) ==
  /\ options = c.options
  /\ objectiveFunction = c.objectiveFunction
  /\ modelstatus_ = kNotset
  /\ lower_bound = lb
  /\ upper_bound = ub
  /\ upper_limit = c.options.objective_bound
  /\ optimality_limit = c.options.objective_bound
  /\ incumbent = <<>>
  /\ solution_ = c.start
  /\ solution_objective_ =
       IF c.start = <<>> THEN kHighsInf ELSE originalObjective(c.start)
  /\ bound_violation_ = IF c.start = <<>> THEN 0 ELSE boundViolation(c.start)
  /\ integrality_violation_ =
       IF c.start = <<>> THEN 0 ELSE integralityViolation(c.start)
  /\ row_violation_ = IF c.start = <<>> THEN 0 ELSE rowViolation(c.start)
  /\ numImprovingSols = 0
  /\ pruned_treeweight = 0
  /\ num_nodes = 0
  /\ num_leaves = 0
  /\ nodequeue = <<>>
  /\ shift = c.shift
  /\ offset_ = modelOffset(c.options.sense, c.shift)
  /\ numRestarts = 0
  /\ domain_infeasible = FALSE
  /\ changedCols = FALSE
  /\ lp = [solved |-> FALSE, status |-> kLpNotSet, objective |-> 0,
           sol |-> <<>>, num_row_ |-> rows + cuts]
  /\ num_row_ = rows
  /\ cutpool = 0
  /\ postSolveStack = stack
  /\ firstrootbasis = basis
  /\ rootbasis = NullBasis
  /\ pscostinit = "null"
  /\ detectSymmetries = c.options.mip_detect_symmetry
  /\ symmetries = "none"
  /\ analyticCenterComputed = FALSE
  /\ analyticCenterStatus = kNotset
  /\ analyticCenter = <<>>
  /\ root = NoRoot
  /\ tg = NoTasks
  /\ timer = 0
  /\ user_interrupt = FALSE
  /\ tightened = 0
  /\ pc = at
  /\ call = NoCall("init")

\* a solve with the bounds of the constructor
InitAt(c, stack, basis, rows, cuts, at) ==
  InitBounds(c, stack, basis, rows, cuts, at, -kHighsInf, kHighsInf)

\* the state after construction: the index maps of a model that presolve
\* left as it is, no basis and no cut
InitConfig(c) ==
  InitAt(c, initializeIndexMaps(orig_model_.num_row_, orig_model_.num_col_),
         NoBasis, orig_model_.num_row_, 0, "setup")

Init == \E c \in BoundConfigs : InitConfig(c)

(******************************** the calls ********************************)
RunSetup ==
  /\ pc = "setup"
  /\ \E infeasible \in BOOLEAN :
       \E r \in {runSetup(Cur, [setupInfeasible |-> infeasible,
                                 numBin |-> 1])} :
           /\ Becomes(r)
           /\ pc' = IF r.modelstatus_ = kNotset THEN "solve" ELSE "done"
           /\ call' = NoCall("runSetup")
  /\ UNCHANGED <<envVars, nodeVars>>

\* the verdict on the candidate of a call with solobj below upper_bound
Verdict(solobj, ext) ==
  IF ~(solobj < upper_bound) THEN "none"
  ELSE IF WithinTolerance(FinalCandidate(ext)) THEN "feasible"
  ELSE "infeasible"

\* lower_bound is a valid bound: no candidate is better than it by more than
\* the tolerance
Admissible(solobj) ==
  lower_bound = -kHighsInf \/ solobj >= lower_bound - FEASTOL

AddIncumbentOver(values, errors) ==
  /\ pc = "solve"
  /\ \E v \in values :
       LET sol == <<v - shift>>
           solobj == solutionObjective(Cur, sol)
       IN  /\ Admissible(solobj)
           /\ \E ext \in IncumbentExts(Cur, sol, errors) :
             \E r \in {addIncumbent(Cur, sol, solobj, ext)} :
                 /\ Becomes(r.s)
                 /\ call' = [NoCall("addIncumbent") EXCEPT
                               !.ret = r.ret, !.stored = r.stored,
                               !.verdict = Verdict(solobj, ext)]
  /\ UNCHANGED <<envVars, pc, nodeVars>>

AddIncumbent == AddIncumbentOver(ColValues, PostErrors)

\* candidates handed to trySolution: one column value, or the wrong length
TrySolutions == {<<v>> : v \in ColValues} \cup {<<>>, <<UNIT, UNIT>>}

TrySolution ==
  /\ pc = "solve"
  /\ \E c \in TrySolutions :
       LET sol == IF Len(c) = 1 THEN <<c[1] - shift>> ELSE c
       IN  /\ Len(c) = 1 => Admissible(solutionObjective(Cur, sol))
           /\ \E ext \in IncumbentExts(Cur, IF Len(c) = 1 THEN sol ELSE <<UNIT>>,
                                    PostErrors) :
             \E r \in {trySolution(Cur, sol, ext)} :
                 /\ Becomes(r.s)
                 /\ call' = [NoCall("trySolution") EXCEPT
                               !.ret = r.ret, !.stored = r.stored,
                               !.verdict =
                                 IF Defect(sol, shift) # "none" THEN "none"
                                 ELSE Verdict(solutionObjective(Cur, sol),
                                              ext),
                               !.defect = Defect(sol, shift)]
  /\ UNCHANGED <<envVars, pc, nodeVars>>

Next == RunSetup \/ AddIncumbent \/ TrySolution

\* the incumbent and bound manager
Spec == Init /\ [][Next]_vars

(***************************** the limit checker ***************************)
\* the solves that exercise checkLimits
AllLimits ==
  [NoLimits EXCEPT !.user_callback = TRUE, !.callback_mip_interrupt = TRUE,
                   !.objective_target = 2 * UNIT, !.mip_max_nodes = 1,
                   !.mip_max_improving_sols = 2, !.time_limit = 1]
MaximizeToTarget ==
  [NoLimits EXCEPT !.sense = -1, !.objective_target = UNIT,
                   !.user_callback = TRUE, !.time_limit = 2]
SubMipLimits ==
  [NoLimits EXCEPT !.submip = TRUE, !.user_callback = TRUE,
                   !.callback_mip_interrupt = TRUE,
                   !.objective_target = 3 * UNIT, !.mip_max_leaves = 0,
                   !.time_limit = 1]
SolutionLimit ==
  [NoLimits EXCEPT !.mip_max_improving_sols = 1, !.time_limit = 2,
                   !.user_callback = TRUE, !.callback_mip_interrupt = TRUE]

LimitConfigs ==
  {Config(AllLimits, NonIntegral, <<>>, 0),
   Config(AllLimits, NonIntegral, <<UNIT>>, 0),
   Config(MaximizeToTarget, NonIntegral, <<>>, 0),
   Config(SubMipLimits, NonIntegral, <<>>, 0),
   Config(SolutionLimit, Integral(UNIT), <<>>, UNIT)}

InitLimits == \E c \in LimitConfigs : InitConfig(c)

\* node offsets the callers pass
NodeOffsets == {0, 1}

\* a caller asks checkLimits; when it answers true the solve winds down,
\* and the callers on the way out may ask again
CheckLimits ==
  /\ pc \in {"solve", "done"}
  /\ \E nodeOffset \in NodeOffsets :
       \E r \in {checkLimits(Cur, nodeOffset)} :
           /\ Becomes(r.s)
           /\ pc' = IF r.ret THEN "done" ELSE pc
           /\ call' = [NoCall("checkLimits") EXCEPT
                         !.ret = r.ret, !.nodeOffset = nodeOffset,
                         !.statusSet = r.s.modelstatus_ # modelstatus_]
  /\ UNCHANGED <<envVars, nodeVars>>

\* mipsolver.timer_ advances
Tick ==
  /\ timer < MaxTime
  /\ timer' = timer + 1
  /\ call' = NoCall("tick")
  /\ UNCHANGED <<dataVars, confVars, user_interrupt, tightened, pc, nodeVars>>

\* the user's interrupt callback changes its answer
UserInterrupt ==
  /\ options.user_callback
  /\ user_interrupt' = ~user_interrupt
  /\ call' = NoCall("user")
  /\ UNCHANGED <<dataVars, confVars, timer, tightened, pc, nodeVars>>

\* candidates of the heuristics while the limits are watched
AddIncumbentLimits == AddIncumbentOver({UNIT, 2 * UNIT}, {0})

NextLimits ==
  RunSetup \/ AddIncumbentLimits \/ CheckLimits \/ Tick \/ UserInterrupt

SpecLimits == InitLimits /\ [][NextLimits]_vars

(******************************* the root node *****************************)
\* the solves that exercise the root LP evaluation and the restart
RootConfigs ==
  {Config(NoLimits, NonIntegral, <<>>, 0),
   Config(NoLimits, Integral(UNIT), <<UNIT>>, UNIT),
   Config(Maximize, NonIntegral, <<2 * UNIT>>, 0)}

InitRoot == \E c \in RootConfigs : InitConfig(c)

\* solutions of the root LP (original space): integral, fractional, integral
LpValues == {UNIT, UNIT + 2 * FEASTOL, 2 * UNIT}
LpStatuses == {kLpOptimal, kLpInfeasible, kLpUnbounded,
               kLpUnscaledDualFeasible, kLpUnscaledPrimalFeasible}

\* the collaborators' results for one pass of the loop.  The domain only
\* shrinks, so the objective of the LP is never below a bound proven before.
RootExtsWith(s, errors) ==
  UNION {{[propagate |-> p, status |-> st, sol |-> <<v - s.shift>>,
           redcost |-> rc,
           inc |-> [post |-> undoPrimal(s, <<v - s.shift>>, e),
                    repair |-> rp, domain |-> d]] :
            p \in {"unchanged", "changed", "infeasible"},
            st \in LpStatuses, rc \in BOOLEAN,
            d \in {"unchanged", "changed"},
            rp \in IF e = 0 THEN {NoRepair}
                   ELSE Repairs(undoPrimal(s, <<v - s.shift>>, e))} :
         v \in {w \in LpValues :
                  \/ s.lower_bound = -kHighsInf
                  \/ solutionObjective(s, <<w - s.shift>>) >= s.lower_bound},
         e \in errors}

\* postsolve of the LP solution is exact
RootExts(s) == RootExtsWith(s, {0})

\* what a pass with the collaborators' results ext and the outcome r leaves
RootLpPass(ext, r) ==
  /\ Becomes(r.s)
  /\ pc' = IF r.exit = "continue" THEN "rootlp"
           ELSE IF r.exit = "normal" THEN "solve" ELSE "done"
  /\ call' = [NoCall("evaluateRootLp") EXCEPT
                !.exit = r.exit, !.resolved = r.resolved,
                !.verdict =
                  IF WithinTolerance(ext.inc.post) THEN "feasible"
                  ELSE IF WithinTolerance(FinalCandidate(ext.inc))
                       THEN "repaired" ELSE "infeasible"]

\* one pass of the loop of evaluateRootLp; the loop runs to its return
\* statement before anything else happens.  The verdict is on the image of
\* the LP solution in the original space, as for runSetup.
EvaluateRootLpWith(errors) ==
  /\ pc \in {"solve", "rootlp"}
  /\ \E ext \in RootExtsWith(Cur, errors) :
       \E r \in {evaluateRootLpPass(Cur, ext)} : RootLpPass(ext, r)
  /\ UNCHANGED <<envVars, nodeVars>>

EvaluateRootLp == EvaluateRootLpWith({0})

\* lp.loadModel() at the restart label of evaluateRootNode
loadModel(s) ==
  [s EXCEPT !.lp = [solved |-> FALSE, status |-> kLpNotSet, objective |-> 0,
                    sol |-> <<>>, num_row_ |-> s.num_row_]]

\* what runPresolve leaves at a restart: the model reduced again with some
\* column shift, or solved
\* the cuts in the LP
numLpCuts(s) == Max2(0, s.lp.num_row_ - s.num_row_)

Presolves(s) ==
  {[status |-> st, shift |-> sh, offset |-> modelOffset(s.options.sense, sh),
    num_row_ |-> orig_model_.num_row_, cutpool |-> kept,
    origColIndex |-> [i \in 1..orig_model_.num_col_ |-> i],
    origRowIndex |-> [i \in 1..(orig_model_.num_row_ + kept) |-> i]] :
     st \in {kNotset, kOptimal, kInfeasible}, sh \in Shifts,
     kept \in {0, numLpCuts(s)}}

\* the collaborators' results for one performRestart call
RestartExt(presolve, infeasible) ==
  [presolve |-> presolve, post |-> <<UNIT>>, repair |-> NoRepair,
   setupInfeasible |-> infeasible, numBin |-> 1]

\* what is observed of a performRestart call
RestartCall(r) ==
  [NoCall("performRestart") EXCEPT
     !.exit = r.exit, !.numCuts = r.numCuts,
     !.converted = [upper_limit |-> r.converted.upper_limit,
                    optimality_limit |-> r.converted.optimality_limit,
                    upper_bound |-> r.converted.upper_bound,
                    lower_bound |-> r.converted.lower_bound]]

PerformRestart ==
  /\ pc = "solve"
  /\ numRestarts < MaxRestarts
  /\ \E presolve \in Presolves(Cur), infeasible \in BOOLEAN :
       \E r \in {performRestart(Cur, RestartExt(presolve, infeasible))} :
           /\ Becomes(loadModel(r.s))
           /\ pc' = IF r.s.modelstatus_ = kNotset THEN "solve" ELSE "done"
           /\ call' = RestartCall(r)
  /\ UNCHANGED <<envVars, nodeVars>>

\* candidates of the heuristics at the root
AddIncumbentRoot == AddIncumbentOver({UNIT, 2 * UNIT}, {0})

NextRoot == RunSetup \/ AddIncumbentRoot \/ EvaluateRootLp \/ PerformRestart

SpecRoot == InitRoot /\ [][NextRoot]_vars

\* candidates of the heuristics before the root LP, whose postsolve may be
\* inexact: the transformation may store a fallback solution
AddIncumbentInexact == AddIncumbentOver({UNIT, 2 * UNIT}, PostErrors)
\* postsolve of the LP solution may be inexact as well
EvaluateRootLpInexact == EvaluateRootLpWith(PostErrors)

NextRootLp == RunSetup \/ AddIncumbentInexact \/ EvaluateRootLpInexact

\* the root LP evaluation after candidates of any quality
SpecRootLp == InitRoot /\ [][NextRootLp]_vars

(***************************************************************************)
(* evaluateRootNode                                                        *)
(***************************************************************************)
(****************************** the task group *****************************)
\* A task is "none" (not spawned, or joined), "running", "cancelled" (running
\* with a cancellation requested) or "finished" (its function returned and
\* it is not joined yet).
\* taskGroup.spawn
spawn(t, task) == [t EXCEPT ![task] = "running"]

\* tg.cancel(): the request is recorded; a running task goes on to its end
cancel(t) ==
  [task \in DOMAIN t |-> IF t[task] = "running" THEN "cancelled" ELSE t[task]]

\* the join of one task: the caller goes on (done) once the task has
\* finished, and the task is then joined
sync(t, task) ==
  [done |-> t[task] \in {"none", "finished"}, tg |-> [t EXCEPT ![task] = "none"]]

\* tg.taskWait(): the join of every task of the group
taskWait(t) ==
  [done |-> \A task \in DOMAIN t : t[task] \in {"none", "finished"},
   tg |-> [task \in DOMAIN t |-> "none"]]

\* the search thread goes on without joining
notJoined(t) == [done |-> TRUE, tg |-> t]

\* taskGroup.sync() of finishAnalyticCenterComputation
syncAnalyticCenter(t) == sync(t, "analyticCenter")

\* the search thread goes on without joining
symmetryNotJoined(t) == [done |-> TRUE, tg |-> t]

\* taskGroup.sync() of finishSymmetryDetection
syncSymmetry(t) == sync(t, "symmetry")

\* the restart does not wait for the tasks
notWaited(t) == [done |-> TRUE, tg |-> t]

\* tg.taskWait() before performRestart
waitBeforeRestart(t) == taskWait(t)

\* the task that writes a datum
Writer ==
  [symData |-> "symmetry", analyticCenterStatus |-> "analyticCenter",
   analyticCenter |-> "analyticCenter"]

(******************************* the function ******************************)
\* evaluateRootNode as its statements in the order of the source: line is
\* the line of the statement, kind what it does, next (or then and else,
\* for an if on cond) the statement that follows; "return" leaves the
\* function, "caller" returns from rootSeparationRound or
\* finishAnalyticCenterComputation to the statement after the call.
Program ==
  [restart |-> [line |-> 1420, kind |-> "startSymmetry", next |-> "startAC"],
   startAC |-> [line |-> 1421, kind |-> "startAnalyticCenter",
                next |-> "load"],
   load |-> [line |-> 1425, kind |-> "load", next |-> "lp1444"],
   lp1444 |-> [line |-> 1444, kind |-> "lp", leave |-> "unbounded",
               next |-> "basis"],
   basis |-> [line |-> 1455, kind |-> "basis", next |-> "if1472"],
   if1472 |-> [line |-> 1472, kind |-> "if", cond |-> "cutpool",
               then |-> "cuts1475", else |-> "heur1495"],
   cuts1475 |-> [line |-> 1475, kind |-> "addCuts", next |-> "lp1485"],
   lp1485 |-> [line |-> 1485, kind |-> "lp", leave |-> "later",
               next |-> "rows1486"],
   rows1486 |-> [line |-> 1486, kind |-> "removeObsoleteRows",
                 leave |-> "infeasible", next |-> "heur1495"],
   heur1495 |-> [line |-> 1495, kind |-> "heuristic",
                 name |-> "randomizedRounding", next |-> "lp1498"],
   lp1498 |-> [line |-> 1498, kind |-> "lp", leave |-> "infeasible",
               next |-> "if1503"],
   if1503 |-> [line |-> 1503, kind |-> "if", cond |-> "presolve",
               then |-> "if1505", else |-> "begin"],
   if1505 |-> [line |-> 1505, kind |-> "if", cond |-> "fixingRate10",
               then |-> "cancel1506", else |-> "begin"],
   cancel1506 |-> [line |-> 1506, kind |-> "cancel", next |-> "wait1510"],
   wait1510 |-> [line |-> 1510, kind |-> "taskWait", next |-> "restart1511"],
   restart1511 |-> [line |-> 1511, kind |-> "performRestart",
                    next |-> "restart"],
   begin |-> [line |-> 1525, kind |-> "beginSeparation", next |-> "while"],
   while |-> [line |-> 1531, kind |-> "if", cond |-> "separating",
              then |-> "poll1535", else |-> "lp1614"],
   poll1535 |-> [line |-> 1535, kind |-> "poll", next |-> "if1537"],
   if1537 |-> [line |-> 1537, kind |-> "if", cond |-> "maxSepaRounds",
               then |-> "lp1614", else |-> "if1541"],
   if1541 |-> [line |-> 1541, kind |-> "if", cond |-> "mipPresolve",
               then |-> "if1544", else |-> "count1550"],
   if1544 |-> [line |-> 1544, kind |-> "if", cond |-> "fixingRate10",
               then |-> "stall1545", else |-> "count1550"],
   stall1545 |-> [line |-> 1545, kind |-> "stall", next |-> "lp1614"],
   count1550 |-> [line |-> 1550, kind |-> "count", next |-> "round1553"],
   round1553 |-> [line |-> 1553, kind |-> "round", next |-> "if1554"],
   if1554 |-> [line |-> 1554, kind |-> "if", cond |-> "centralRounding",
               then |-> "poll1555", else |-> "progress"],
   poll1555 |-> [line |-> 1555, kind |-> "poll", next |-> "finish1556"],
   finish1556 |-> [line |-> 1556, kind |-> "finishAnalyticCenter",
                   next |-> "heur1557"],
   heur1557 |-> [line |-> 1557, kind |-> "heuristic",
                 name |-> "centralRounding", next |-> "poll1560"],
   poll1560 |-> [line |-> 1560, kind |-> "poll", next |-> "lp1561"],
   lp1561 |-> [line |-> 1561, kind |-> "lp", leave |-> "infeasible",
               next |-> "progress"],
   progress |-> [line |-> 1565, kind |-> "progress", next |-> "while"],
   lp1614 |-> [line |-> 1614, kind |-> "lp", leave |-> "infeasible",
               next |-> "if1621"],
   if1621 |-> [line |-> 1621, kind |-> "if", cond |-> "analyticCenter",
               then |-> "poll1622", else |-> "poll1642"],
   poll1622 |-> [line |-> 1622, kind |-> "poll", next |-> "finish1623"],
   finish1623 |-> [line |-> 1623, kind |-> "finishAnalyticCenter",
                   next |-> "heur1624"],
   heur1624 |-> [line |-> 1624, kind |-> "heuristic",
                 name |-> "centralRounding", next |-> "poll1629"],
   poll1629 |-> [line |-> 1629, kind |-> "poll", next |-> "sep1630"],
   sep1630 |-> [line |-> 1630, kind |-> "separate", next |-> "lp1631"],
   lp1631 |-> [line |-> 1631, kind |-> "lp", leave |-> "infeasible",
               next |-> "if1633"],
   if1633 |-> [line |-> 1633, kind |-> "if", cond |-> "separate",
               then |-> "round1635", else |-> "poll1642"],
   round1635 |-> [line |-> 1635, kind |-> "round", next |-> "count1636"],
   count1636 |-> [line |-> 1636, kind |-> "count", next |-> "poll1642"],
   poll1642 |-> [line |-> 1642, kind |-> "poll", next |-> "if1645"],
   if1645 |-> [line |-> 1645, kind |-> "if", cond |-> "rootlpsolEmpty",
               then |-> "if1710", else |-> "if1646"],
   if1646 |-> [line |-> 1646, kind |-> "if", cond |-> "noMoreHeuristics",
               then |-> "if1710", else |-> "heur1648"],
   heur1648 |-> [line |-> 1648, kind |-> "heuristic",
                 name |-> "rootReducedCost", next |-> "poll1651"],
   poll1651 |-> [line |-> 1651, kind |-> "poll", next |-> "sep1655"],
   sep1655 |-> [line |-> 1655, kind |-> "separate", next |-> "lp1656"],
   lp1656 |-> [line |-> 1656, kind |-> "lp", leave |-> "infeasible",
               next |-> "if1658"],
   if1658 |-> [line |-> 1658, kind |-> "if", cond |-> "separate",
               then |-> "round1660", else |-> "if1666"],
   round1660 |-> [line |-> 1660, kind |-> "round", next |-> "count1662"],
   count1662 |-> [line |-> 1662, kind |-> "count", next |-> "if1666"],
   if1666 |-> [line |-> 1666, kind |-> "if", cond |-> "noMoreHeuristics",
               then |-> "if1710", else |-> "poll1668"],
   poll1668 |-> [line |-> 1668, kind |-> "poll", next |-> "heur1669"],
   heur1669 |-> [line |-> 1669, kind |-> "heuristic", name |-> "RENS",
                 next |-> "poll1672"],
   poll1672 |-> [line |-> 1672, kind |-> "poll", next |-> "sep1675"],
   sep1675 |-> [line |-> 1675, kind |-> "separate", next |-> "lp1676"],
   lp1676 |-> [line |-> 1676, kind |-> "lp", leave |-> "infeasible",
               next |-> "if1678"],
   if1678 |-> [line |-> 1678, kind |-> "if", cond |-> "separate",
               then |-> "round1680", else |-> "poll1686"],
   round1680 |-> [line |-> 1680, kind |-> "round", next |-> "count1682"],
   count1682 |-> [line |-> 1682, kind |-> "count", next |-> "poll1686"],
   poll1686 |-> [line |-> 1686, kind |-> "poll", next |-> "if1692"],
   if1692 |-> [line |-> 1692, kind |-> "if", cond |-> "trivialHeuristics",
               then |-> "heur1694", else |-> "if1699"],
   heur1694 |-> [line |-> 1694, kind |-> "heuristic", name |-> "trivial",
                 next |-> "if1699"],
   if1699 |-> [line |-> 1699, kind |-> "if", cond |-> "limitOrSubmip",
               then |-> "if1710", else |-> "poll1701"],
   poll1701 |-> [line |-> 1701, kind |-> "poll", next |-> "heur1702"],
   heur1702 |-> [line |-> 1702, kind |-> "heuristic",
                 name |-> "feasibilityPump", next |-> "poll1705"],
   poll1705 |-> [line |-> 1705, kind |-> "poll", next |-> "lp1706"],
   lp1706 |-> [line |-> 1706, kind |-> "lp", leave |-> "infeasible",
               next |-> "if1710"],
   if1710 |-> [line |-> 1710, kind |-> "if", cond |-> "aboveLimit",
               then |-> "optimal", else |-> "sep1720"],
   optimal |-> [line |-> 1711, kind |-> "optimal", next |-> "return"],
   sep1720 |-> [line |-> 1720, kind |-> "separate", next |-> "lp1721"],
   lp1721 |-> [line |-> 1721, kind |-> "lp", leave |-> "infeasible",
               next |-> "if1723"],
   if1723 |-> [line |-> 1723, kind |-> "if", cond |-> "separate",
               then |-> "round1725", else |-> "rows1731"],
   round1725 |-> [line |-> 1725, kind |-> "round", next |-> "count1727"],
   count1727 |-> [line |-> 1727, kind |-> "count", next |-> "rows1731"],
   rows1731 |-> [line |-> 1731, kind |-> "removeObsoleteRows",
                 leave |-> "never", next |-> "if1737"],
   if1737 |-> [line |-> 1737, kind |-> "if", cond |-> "withinLimit",
               then |-> "if1738", else |-> "return"],
   if1738 |-> [line |-> 1738, kind |-> "if", cond |-> "mipPresolve",
               then |-> "if1740", else |-> "if1758"],
   if1740 |-> [line |-> 1740, kind |-> "if", cond |-> "analyticCenter",
               then |-> "finish1740", else |-> "if1742"],
   finish1740 |-> [line |-> 1740, kind |-> "finishAnalyticCenter",
                   next |-> "if1742"],
   if1742 |-> [line |-> 1742, kind |-> "if", cond |-> "fixingRate",
               then |-> "cancel1744", else |-> "if1758"],
   cancel1744 |-> [line |-> 1744, kind |-> "cancel", next |-> "cap1748"],
   cap1748 |-> [line |-> 1748, kind |-> "capRounds", next |-> "wait1749"],
   wait1749 |-> [line |-> 1749, kind |-> "taskWait", next |-> "restart1750"],
   restart1750 |-> [line |-> 1750, kind |-> "performRestart",
                    next |-> "restart"],
   if1758 |-> [line |-> 1758, kind |-> "if", cond |-> "detectSymmetries",
               then |-> "sync164", else |-> "seed"],
   sync164 |-> [line |-> 164, kind |-> "syncSymmetry", next |-> "finish166"],
   finish166 |-> [line |-> 166, kind |-> "finishSymmetry",
                  next |-> "lp1760"],
   lp1760 |-> [line |-> 1760, kind |-> "lp", leave |-> "infeasible",
               next |-> "seed"],
   seed |-> [line |-> 1765, kind |-> "seed", next |-> "return"],
   \* rootSeparationRound
   sepa1302 |-> [line |-> 1302, kind |-> "separation", next |-> "lp1308"],
   lp1308 |-> [line |-> 1308, kind |-> "lp", leave |-> "infeasible",
               next |-> "if1313"],
   if1313 |-> [line |-> 1313, kind |-> "if", cond |-> "noIncumbent",
               then |-> "heur1314", else |-> "end1320"],
   heur1314 |-> [line |-> 1314, kind |-> "heuristic",
                 name |-> "randomizedRounding", next |-> "lp1316"],
   lp1316 |-> [line |-> 1316, kind |-> "lp", leave |-> "infeasible",
               next |-> "end1320"],
   end1320 |-> [line |-> 1320, kind |-> "roundEnd", next |-> "caller"],
   \* finishAnalyticCenterComputation
   sync98 |-> [line |-> 98, kind |-> "syncAnalyticCenter", next |-> "fix99"],
   fix99 |-> [line |-> 99, kind |-> "fixAtCenter", next |-> "caller"],
   \* the end of evaluateRootNode: tg, then symData, are destroyed
   return |-> [line |-> 1769, kind |-> "leave", next |-> "join"],
   join |-> [line |-> 1769, kind |-> "join", next |-> "destroy"],
   destroy |-> [line |-> 1769, kind |-> "destroy", next |-> "done"]]

(****************************** the statements *****************************)
\* lp.scaledOptimal(status)
scaledOptimal(status) == status = kLpOptimal

\* HighsInt(2 * std::sqrt(maxTreeSizeLog2))
twiceSqrt(n) == CHOOSE k \in 0..(4 * n) : k * k <= 4 * n /\ (k + 1) * (k + 1) > 4 * n

\* maxSepaRounds as evaluateRootNode computes it on entry
maxSepaRoundsAtEntry(s, maxTreeSizeLog2) ==
  Only({IF s.numRestarts = 0 THEN Min2(twiceSqrt(maxTreeSizeLog2), m) ELSE m :
          m \in {IF s.options.submip THEN 5 ELSE kHighsIInf}})

\* the root is never left for a restart
noRestartAfterRoot(s, rate) == FALSE

\* fixingRate >= 2.5 + 7.5 * submip, or the first run has inactive columns
restartAfterRoot(s, rate) ==
  \/ 2 * rate >= 5 + (IF s.options.submip THEN 15 ELSE 0)
  \/ (~s.options.submip /\ rate > 0 /\ s.numRestarts = 0)

\* presolve is enabled, in a sub-solve or not
presolveEnabled(s) == s.options.presolve

\* !mipsolver.submip && mipsolver.options_mip_->presolve != kHighsOffString
mipPresolve(s) == ~s.options.submip /\ s.options.presolve

\* the heuristics end only when an incumbent is known
endWithIncumbent(s) == s.upper_limit # kHighsInf

\* if (upper_limit != kHighsInf || mipsolver.submip) break
endOfHeuristics(s) == s.upper_limit # kHighsInf \/ s.options.submip

\* the test of an if statement or loop head; e.rate is what
\* percentageInactiveIntegers returns, e.allowed what moreHeuristicsAllowed
Cond(cond, s, r, e) ==
  CASE cond = "cutpool" -> s.cutpool # 0
    [] cond = "presolve" -> s.options.presolve
    [] cond = "mipPresolve" -> mipPresolve(s)
    [] cond = "fixingRate10" -> e.rate >= 10
    [] cond = "fixingRate" -> restartAfterRoot(s, e.rate)
    [] cond = "separating" ->
         /\ scaledOptimal(r.status)
         /\ fractionalIntegers(s.lp.sol)
         /\ r.stall < 3
    [] cond = "maxSepaRounds" -> r.nseparounds = r.maxSepaRounds
    [] cond = "centralRounding" ->
         r.nseparounds >= 5 /\ ~s.options.submip /\ ~s.analyticCenterComputed
    [] cond = "analyticCenter" -> ~s.analyticCenterComputed
    [] cond = "separate" -> r.separate /\ scaledOptimal(r.status)
    [] cond = "rootlpsolEmpty" -> numCol(s) = 0
    [] cond = "noMoreHeuristics" -> s.upper_limit # kHighsInf /\ ~e.allowed
    [] cond = "trivialHeuristics" -> s.options.mip_trivial_heuristics # "off"
    [] cond = "limitOrSubmip" -> endOfHeuristics(s)
    [] cond = "aboveLimit" -> s.lower_bound > s.upper_limit
    [] cond = "withinLimit" -> s.lower_bound <= s.upper_limit
    [] cond = "detectSymmetries" -> s.detectSymmetries
    [] cond = "noIncumbent" -> s.options.submip \/ s.incumbent = <<>>

\* the return statement after an evaluateRootLp call is taken
Leaves(leave, status) ==
  \/ leave = "infeasible" /\ status = kLpInfeasible
  \/ leave = "unbounded" /\ status \in {kLpInfeasible, kLpUnbounded}

\* firstrootbasis after the first root LP: the basis of the LP if it is
\* valid and the LP has no cuts, the slack basis otherwise
rootBasis(s, basis) ==
  IF basis.valid /\ s.lp.num_row_ = s.num_row_
  THEN basis
  ELSE [valid |-> TRUE, col_status |-> [i \in 1..numCol(s) |-> kNonbasic],
        row_status |-> [i \in 1..s.num_row_ |-> kBasic]]

\* lp.addCuts of the cuts the pool kept over the restart
addCuts(s) ==
  [s EXCEPT !.lp = [@ EXCEPT !.num_row_ = @ + s.cutpool, !.solved = FALSE]]

\* sepa.separationRound adds ncuts cuts to the LP
separationRound(s, ncuts) ==
  IF ncuts = 0 THEN s
  ELSE [s EXCEPT !.lp = [@ EXCEPT !.num_row_ = @ + ncuts, !.solved = FALSE]]

\* lp.removeObsoleteRows drops the cuts that are not needed, if any
removeObsoleteRows(s, obsolete) ==
  IF obsolete THEN [s EXCEPT !.lp = [@ EXCEPT !.num_row_ = s.num_row_]] ELSE s

\* lower_bound > upper_limit after the heuristics
solvedAtRoot(s) ==
  [s EXCEPT !.modelstatus_ = kOptimal, !.pruned_treeweight = 1,
            !.num_nodes = @ + 1, !.num_leaves = @ + 1]

\* a second node is added
emplaceTwice(s) ==
  [s EXCEPT !.nodequeue =
              @ \o <<[lower_bound |-> s.lower_bound, weight |-> 1],
                     [lower_bound |-> s.lower_bound, weight |-> 1]>>]

\* nodequeue.emplaceNode(..., lower_bound, estimate, 1)
emplaceNode(s) ==
  [s EXCEPT !.nodequeue =
              Append(@, [lower_bound |-> s.lower_bound, weight |-> 1])]

\* the second part of finishAnalyticCenterComputation: the columns at a bound
\* at the analytic center are fixed; fix is the outcome for the domain
fixAtCenter(s, fix) ==
  Only({IF s.analyticCenterStatus # kOptimal THEN s1
        ELSE [s1 EXCEPT !.changedCols = @ \/ fix = "changed",
                        !.domain_infeasible = @ \/ fix = "infeasible"] :
          s1 \in {[s EXCEPT !.analyticCenterComputed = TRUE]}})

\* the second part of finishSymmetryDetection: result is what the task left
\* in symData
moveSymmetries(s, result) ==
  [s EXCEPT !.symmetries = result,
            !.detectSymmetries = IF result = "none" THEN FALSE ELSE @]

(***************************************************************************)
(* The steps of evaluateRootNode, of its tasks and of the driver           *)
(***************************************************************************)
\* the tree sizes (maxTreeSizeLog2) of the presolved models; at most MaxCuts
\* cuts are in the LP
TreeSizes == {9}
MaxCuts == 1

\* inactive integer columns in percent: they only grow until the model is
\* presolved again, and after MaxRestarts restarts no column is inactive
Rates(s, r) ==
  IF s.numRestarts < MaxRestarts
  THEN {rate \in {0, 1, 12} : rate >= r.fixingRate}
  ELSE {0}

CondExts(cond, s, r) ==
  IF cond \in {"fixingRate10", "fixingRate"}
  THEN {[rate |-> rate, allowed |-> TRUE] : rate \in Rates(s, r)}
  ELSE IF cond = "noMoreHeuristics"
  THEN {[rate |-> r.fixingRate, allowed |-> a] : a \in BOOLEAN}
  ELSE {[rate |-> r.fixingRate, allowed |-> TRUE]}

\* solutions and statuses of the root LP; an LP that was solved does not
\* become unbounded when rows are added or bounds tightened
NodeLpExts(s) ==
  UNION {{[propagate |-> p, status |-> st, sol |-> <<v - s.shift>>,
           redcost |-> FALSE,
           inc |-> [post |-> undoPrimal(s, <<v - s.shift>>, 0),
                    repair |-> NoRepair, domain |-> "unchanged"]] :
            p \in {"unchanged", "changed", "infeasible"},
            st \in {kLpOptimal, kLpInfeasible}
                     \cup (IF s.lp.status = kLpNotSet THEN {kLpUnbounded}
                           ELSE {})} :
         v \in {w \in {UNIT, UNIT + 2 * FEASTOL} :
                  \/ s.lower_bound = -kHighsInf
                  \/ solutionObjective(s, <<w - s.shift>>) >= s.lower_bound}}

\* what a heuristic does: nothing, or it hands a solution to addIncumbent
HeuristicExts(s) ==
  {[found |-> FALSE]}
    \cup {[found |-> TRUE, sol |-> <<c.v - s.shift>>,
           inc |-> [post |-> undoPrimal(s, <<c.v - s.shift>>, 0),
                    repair |-> NoRepair, domain |-> c.d,
                    setupInfeasible |-> FALSE]] :
            c \in {k \in {[v |-> 2 * UNIT, d |-> "unchanged"],
                          [v |-> UNIT, d |-> "unchanged"],
                          [v |-> UNIT, d |-> "changed"],
                          [v |-> UNIT, d |-> "propagate"]} :
                     \/ s.lower_bound = -kHighsInf
                     \/ solutionObjective(s, <<k.v - s.shift>>)
                          >= s.lower_bound - FEASTOL}}

\* what runPresolve leaves at a restart of the root
NodePresolves(s) == {p \in Presolves(s) : p.shift = UNIT}

\* the bases the LP solver may hold after the first root LP
LpBases(s) ==
  {[valid |-> TRUE, col_status |-> [i \in 1..numCol(s) |-> kBasic],
    row_status |-> [i \in 1..s.lp.num_row_ |-> kLower]]}

\* the statement evaluateRootNode is at, and its kind
Here == Program[root.at]
At(kind) == root.at \in DOMAIN Program /\ Here.kind = kind

\* what is observed of a step of evaluateRootNode
StepCall == [NoCall("evaluateRootNode") EXCEPT !.step = Here.kind, !.at = root.at]

\* the driver calls evaluateRootNode; sizes are the tree sizes of the model
EvaluateRootNodeOf(sizes) ==
  /\ pc = "solve"
  /\ root.at = "idle"
  /\ modelstatus_ = kNotset
  /\ \E maxTreeSizeLog2 \in sizes :
       root' = [NoRoot EXCEPT
                  !.at = "restart",
                  !.maxSepaRounds = maxSepaRoundsAtEntry(Cur, maxTreeSizeLog2)]
  /\ tg' = NoTasks
  /\ call' = [NoCall("evaluateRootNode") EXCEPT !.step = "enter"]
  /\ UNCHANGED <<dataVars, confVars, envVars, pc>>

EvaluateRootNode == EvaluateRootNodeOf(TreeSizes)

\* if (detectSymmetries) startSymmetryDetection(tg, symData)
StartSymmetryDetection ==
  /\ At("startSymmetry")
  /\ IF detectSymmetries
     THEN \E initialized \in BOOLEAN :
            /\ Becomes([Cur EXCEPT !.detectSymmetries = initialized])
            /\ tg' = IF initialized THEN spawn(tg, "symmetry") ELSE tg
            /\ root' = [root EXCEPT
                          !.at = Here.next,
                          !.symData = IF initialized THEN "allocated"
                                      ELSE "null"]
            /\ call' = [StepCall EXCEPT !.touches = {"symData"}]
     ELSE /\ root' = [root EXCEPT !.at = Here.next]
          /\ call' = StepCall
          /\ UNCHANGED <<dataVars, confVars, tg>>
  /\ UNCHANGED <<envVars, pc>>

\* if (!analyticCenterComputed) startAnalyticCenterComputation(tg)
StartAnalyticCenterComputation ==
  /\ At("startAnalyticCenter")
  /\ tg' = IF analyticCenterComputed THEN tg ELSE spawn(tg, "analyticCenter")
  /\ root' = [root EXCEPT !.at = Here.next]
  /\ call' = StepCall
  /\ UNCHANGED <<dataVars, confVars, envVars, pc>>

\* lp.loadModel(); domain.clearChangedCols()
LoadModel ==
  /\ At("load")
  /\ Becomes([loadModel(Cur) EXCEPT !.changedCols = FALSE])
  /\ root' = [root EXCEPT !.at = Here.next]
  /\ call' = StepCall
  /\ UNCHANGED <<envVars, pc, tg>>

\* status = evaluateRootLp(), one pass of its loop, and the test of the
\* status that follows the call
RootLp ==
  /\ At("lp")
  /\ \E ext \in NodeLpExts(Cur) :
       \E r \in {evaluateRootLpPass(Cur, ext)} :
           /\ Becomes(r.s)
           /\ root' = IF r.exit = "continue" THEN root
                      ELSE [root EXCEPT
                              !.status = r.ret,
                              !.at = IF Leaves(Here.leave, r.ret)
                                     THEN "return" ELSE Here.next]
           /\ call' = [StepCall EXCEPT !.exit = r.exit]
  /\ UNCHANGED <<envVars, pc, tg>>

\* firstrootbasis is taken from the LP solver
RootBasis ==
  /\ At("basis")
  /\ \E basis \in LpBases(Cur) :
       Becomes([Cur EXCEPT !.firstrootbasis = rootBasis(Cur, basis)])
  /\ root' = [root EXCEPT !.at = Here.next]
  /\ call' = StepCall
  /\ UNCHANGED <<envVars, pc, tg>>

\* an if statement or the head of the separation loop
If ==
  /\ At("if")
  /\ \E e \in CondExts(Here.cond, Cur, root) :
       root' = [root EXCEPT
                  !.fixingRate = e.rate,
                  !.at = IF Cond(Here.cond, Cur, root, e)
                         THEN Here.then ELSE Here.else]
  /\ call' = StepCall
  /\ UNCHANGED <<dataVars, confVars, envVars, pc, tg>>

\* cutpool.separateLpCutsAfterRestart(cutset); lp.addCuts(cutset)
AddCuts ==
  /\ At("addCuts")
  /\ Becomes(addCuts(Cur))
  /\ root' = [root EXCEPT !.at = Here.next]
  /\ call' = StepCall
  /\ UNCHANGED <<envVars, pc, tg>>

\* lp.removeObsoleteRows()
RemoveObsoleteRows ==
  /\ At("removeObsoleteRows")
  /\ \E obsolete \in BOOLEAN : Becomes(removeObsoleteRows(Cur, obsolete))
  /\ root' = [root EXCEPT !.at = IF Leaves(Here.leave, root.status)
                                 THEN "return" ELSE Here.next]
  /\ call' = StepCall
  /\ UNCHANGED <<envVars, pc, tg>>

\* the heuristics of the phase after the separation loop, in the order of
\* their calls (lines 1648, 1669, 1694, 1702)
PostLoopHeuristics == <<"rootReducedCost", "RENS", "trivial", "feasibilityPump">>

\* the noted heuristics that ran since the separation began
ranAfter(ran, name, noted) ==
  IF \E i \in noted : PostLoopHeuristics[i] = name
  THEN Append(ran, name) ELSE ran

\* a primal heuristic; centralRounding rounds the analytic center.  The
\* heuristics with a number in noted are written down in root.ran
HeuristicNoting(noted) ==
  /\ At("heuristic")
  /\ \E ext \in HeuristicExts(Cur) :
       IF ext.found
       THEN \E r \in {addIncumbent(Cur, ext.sol,
                                   solutionObjective(Cur, ext.sol), ext.inc)} :
              Becomes(r.s)
       ELSE UNCHANGED <<dataVars, confVars>>
  /\ root' = [root EXCEPT !.at = Here.next, !.ran = ranAfter(@, Here.name, noted)]
  /\ call' = [StepCall EXCEPT
                !.touches = IF Here.name = "centralRounding"
                            THEN {"analyticCenter"} ELSE {}]
  /\ UNCHANGED <<envVars, pc, tg>>

Heuristic == HeuristicNoting({})

\* tg.cancel()
Cancel ==
  /\ At("cancel")
  /\ tg' = cancel(tg)
  /\ root' = [root EXCEPT !.at = Here.next]
  /\ call' = StepCall
  /\ UNCHANGED <<dataVars, confVars, envVars, pc>>

\* if (stall != -1) maxSepaRounds = std::min(maxSepaRounds, nseparounds)
CapRounds ==
  /\ At("capRounds")
  /\ root' = [root EXCEPT
                !.at = Here.next,
                !.maxSepaRounds = IF root.stall # -1
                                  THEN Min2(@, root.nseparounds) ELSE @]
  /\ call' = StepCall
  /\ UNCHANGED <<dataVars, confVars, envVars, pc, tg>>

\* tg.taskWait()
TaskWait ==
  /\ At("taskWait")
  /\ \E w \in {waitBeforeRestart(tg)} :
       /\ w.done
       /\ tg' = w.tg
  /\ root' = [root EXCEPT !.at = Here.next]
  /\ call' = StepCall
  /\ UNCHANGED <<dataVars, confVars, envVars, pc>>

\* the task data a performRestart call writes: runSetup, when it does not
\* return early, clears the analytic center and its status
restartTouches(r) ==
  IF r.exit = "setup" /\ r.s.modelstatus_ = kNotset
  THEN {"analyticCenterStatus", "analyticCenter"} ELSE {}

\* the root is evaluated again whatever the restart left
alwaysRestart(status, next) == next

\* if (mipsolver.modelstatus_ == HighsModelStatus::kNotset) goto restart;
\* return;
afterRestart(status, next) == IF status = kNotset THEN next ELSE "return"

\* performRestart(); ++numRestartsRoot; if the status is not set, goto restart
PerformRestartAtRoot ==
  /\ At("performRestart")
  /\ \E presolve \in NodePresolves(Cur), infeasible \in BOOLEAN :
       \E r \in {performRestart(Cur, RestartExt(presolve, infeasible))} :
           /\ Becomes(r.s)
           /\ root' = [root EXCEPT
                         !.fixingRate = 0,
                         !.at = afterRestart(r.s.modelstatus_, Here.next)]
           /\ call' = [RestartCall(r) EXCEPT
                         !.step = Here.kind, !.at = root.at,
                         !.touches = restartTouches(r)]
  /\ UNCHANGED <<envVars, pc, tg>>

\* HighsInt stall = 0; HighsInt nseparounds = 0
BeginSeparation ==
  /\ At("beginSeparation")
  /\ root' = [root EXCEPT !.at = Here.next, !.stall = 0, !.nseparounds = 0,
                          !.ran = <<>>]
  /\ call' = StepCall
  /\ UNCHANGED <<dataVars, confVars, envVars, pc, tg>>

\* the poll is made and its answer ignored
pollIgnored(stop, next) == next

\* if (checkLimits()) return: the statement that follows the poll
afterPoll(stop, next) == IF stop THEN "return" ELSE next

\* a poll of the limits
Poll ==
  /\ At("poll")
  /\ \E r \in {checkLimits(Cur, 0)} :
       /\ Becomes(r.s)
       /\ root' = [root EXCEPT !.at = afterPoll(r.ret, Here.next)]
       /\ call' = [StepCall EXCEPT !.ret = r.ret]
  /\ UNCHANGED <<envVars, pc, tg>>

\* stall = -1; break
Stall ==
  /\ At("stall")
  /\ root' = [root EXCEPT !.at = Here.next, !.stall = -1]
  /\ call' = StepCall
  /\ UNCHANGED <<dataVars, confVars, envVars, pc, tg>>

\* ++nseparounds
Count ==
  /\ At("count")
  /\ root' = [root EXCEPT !.at = Here.next, !.nseparounds = @ + 1]
  /\ call' = StepCall
  /\ UNCHANGED <<dataVars, confVars, envVars, pc, tg>>

\* rootSeparationRound(sepa, ncuts, status) is called
RootSeparationRound ==
  /\ At("round")
  /\ root' = [root EXCEPT !.at = "sepa1302", !.caller = Here.next]
  /\ call' = StepCall
  /\ UNCHANGED <<dataVars, confVars, envVars, pc, tg>>

\* ncuts = sepa.separationRound(domain, status); at most maxCuts cuts are
\* in the LP
SeparationUpTo(maxCuts) ==
  /\ At("separation")
  /\ \E ncuts \in {n \in {0, 1} : numLpCuts(Cur) + n <= maxCuts} :
       /\ Becomes(separationRound(Cur, ncuts))
       /\ root' = [root EXCEPT !.at = Here.next, !.ncuts = ncuts]
  /\ call' = StepCall
  /\ UNCHANGED <<envVars, pc, tg>>

Separation == SeparationUpTo(MaxCuts)

\* return false, at the end of rootSeparationRound
RoundEnd ==
  /\ At("roundEnd")
  /\ root' = [root EXCEPT !.at = root.caller, !.caller = "none"]
  /\ call' = StepCall
  /\ UNCHANGED <<dataVars, confVars, envVars, pc, tg>>

\* finishAnalyticCenterComputation(tg) is called
FinishAnalyticCenterComputation ==
  /\ At("finishAnalyticCenter")
  /\ root' = [root EXCEPT !.at = "sync98", !.caller = Here.next]
  /\ call' = StepCall
  /\ UNCHANGED <<dataVars, confVars, envVars, pc, tg>>

\* taskGroup.sync() in finishAnalyticCenterComputation
SyncAnalyticCenter ==
  /\ At("syncAnalyticCenter")
  /\ \E w \in {syncAnalyticCenter(tg)} :
       /\ w.done
       /\ tg' = w.tg
  /\ root' = [root EXCEPT !.at = Here.next]
  /\ call' = StepCall
  /\ UNCHANGED <<dataVars, confVars, envVars, pc>>

\* the rest of finishAnalyticCenterComputation
FixAtCenter ==
  /\ At("fixAtCenter")
  /\ \E fix \in {"unchanged", "changed", "infeasible"} :
       Becomes(fixAtCenter(Cur, fix))
  /\ root' = [root EXCEPT !.at = root.caller, !.caller = "none"]
  /\ call' = [StepCall EXCEPT
                !.touches = {"analyticCenterStatus", "analyticCenter"}]
  /\ UNCHANGED <<envVars, pc, tg>>

\* the loop goes on whatever the round added
alwaysNextRound(ncuts, next) == next

\* if (ncuts == 0) break
afterRound(ncuts, next) == IF ncuts = 0 THEN "lp1614" ELSE next

\* the progress of the round: the stall counter, and the end of the loop
\* when the round added no cut
Progress ==
  /\ At("progress")
  /\ \E stalled \in BOOLEAN :
       root' = [root EXCEPT
                  !.stall = IF root.nseparounds = 1 THEN @
                            ELSE IF stalled THEN @ + 1 ELSE 0,
                  !.at = afterRound(root.ncuts, Here.next)]
  /\ call' = StepCall
  /\ UNCHANGED <<dataVars, confVars, envVars, pc, tg>>

\* separate = !domain.getChangedCols().empty()
Separate ==
  /\ At("separate")
  /\ root' = [root EXCEPT !.at = Here.next, !.separate = changedCols]
  /\ call' = StepCall
  /\ UNCHANGED <<dataVars, confVars, envVars, pc, tg>>

\* lower_bound > upper_limit: the model is solved at the root
SolvedAtRoot ==
  /\ At("optimal")
  /\ Becomes(solvedAtRoot(Cur))
  /\ root' = [root EXCEPT !.at = Here.next]
  /\ call' = StepCall
  /\ UNCHANGED <<envVars, pc, tg>>

\* taskGroup.sync() in finishSymmetryDetection
SyncSymmetry ==
  /\ At("syncSymmetry")
  /\ \E w \in {syncSymmetry(tg)} :
       /\ w.done
       /\ tg' = w.tg
  /\ root' = [root EXCEPT !.at = Here.next]
  /\ call' = StepCall
  /\ UNCHANGED <<dataVars, confVars, envVars, pc>>

\* the rest of finishSymmetryDetection
FinishSymmetryDetection ==
  /\ At("finishSymmetry")
  /\ Becomes(moveSymmetries(Cur, IF root.symData = "generators"
                                 THEN "generators" ELSE "none"))
  /\ root' = [root EXCEPT !.at = Here.next, !.symData = "null"]
  /\ call' = [StepCall EXCEPT !.touches = {"symData"}]
  /\ UNCHANGED <<envVars, pc, tg>>

\* the root node is added to the node queue
Seed ==
  /\ At("seed")
  /\ Becomes(emplaceNode(Cur))
  /\ root' = [root EXCEPT !.at = Here.next]
  /\ call' = StepCall
  /\ UNCHANGED <<envVars, pc, tg>>

\* a return statement: tg goes out of scope and cancels its tasks
Leave ==
  /\ At("leave")
  /\ tg' = cancel(tg)
  /\ root' = [root EXCEPT !.at = Here.next]
  /\ call' = StepCall
  /\ UNCHANGED <<dataVars, confVars, envVars, pc>>

\* tg waits for its tasks
Join ==
  /\ At("join")
  /\ \E w \in {taskWait(tg)} :
       /\ w.done
       /\ tg' = w.tg
  /\ root' = [root EXCEPT !.at = Here.next]
  /\ call' = StepCall
  /\ UNCHANGED <<dataVars, confVars, envVars, pc>>

\* symData is destroyed and the driver goes on: it searches if there is an
\* open node and the status is not set
Destroy ==
  /\ At("destroy")
  /\ root' = [root EXCEPT !.at = Here.next, !.symData = "null"]
  /\ pc' = IF modelstatus_ = kNotset /\ nodequeue # <<>>
           THEN "search" ELSE "done"
  /\ call' = [StepCall EXCEPT !.touches = {"symData"}]
  /\ UNCHANGED <<dataVars, confVars, envVars, tg>>

\* the symmetry detection task runs to its end and leaves its result
SymmetryTask ==
  /\ tg.symmetry \in {"running", "cancelled"}
  /\ \E result \in {"none", "generators"} :
       root' = [root EXCEPT !.symData = result]
  /\ tg' = [tg EXCEPT !.symmetry = "finished"]
  /\ call' = NoCall("task")
  /\ UNCHANGED <<dataVars, confVars, envVars, pc>>

\* the analytic center task runs to its end; it leaves no result if the
\* interior point solver has no solution of the model's size
AnalyticCenterTask ==
  /\ tg.analyticCenter \in {"running", "cancelled"}
  /\ \E status \in {kNotset, kOptimal} :
       Becomes(IF status = kNotset THEN Cur
               ELSE [Cur EXCEPT !.analyticCenterStatus = status,
                                !.analyticCenter = <<UNIT>>])
  /\ tg' = [tg EXCEPT !.analyticCenter = "finished"]
  /\ call' = NoCall("task")
  /\ UNCHANGED <<envVars, pc, root>>

\* the search: a solution is found while the root node is open
AddIncumbentSearch ==
  /\ pc = "search"
  /\ nodequeue # <<>>
  /\ \E ext \in HeuristicExts(Cur) :
       /\ ext.found
       /\ \E r \in {addIncumbent(Cur, ext.sol,
                                 solutionObjective(Cur, ext.sol), ext.inc)} :
            /\ Becomes(r.s)
            /\ call' = [NoCall("addIncumbent") EXCEPT
                          !.ret = r.ret, !.stored = r.stored]
  /\ UNCHANGED <<envVars, pc, nodeVars>>

\* the search restarts: the driver calls performRestart and, if the status
\* is not set, evaluateRootNode again
PerformRestartInSearch ==
  /\ pc = "search"
  /\ numRestarts < MaxRestarts
  /\ \E presolve \in NodePresolves(Cur), infeasible \in BOOLEAN :
       \E r \in {performRestart(Cur, RestartExt(presolve, infeasible))} :
           /\ Becomes(r.s)
           /\ pc' = IF r.s.modelstatus_ = kNotset THEN "solve" ELSE "done"
           /\ call' = [RestartCall(r) EXCEPT !.touches = restartTouches(r)]
  /\ root' = NoRoot
  /\ UNCHANGED <<envVars, tg>>

\* the clock advances; it is only compared with the time limit, so it is
\* followed until the limit is reached
TickToLimit ==
  /\ timer < options.time_limit
  /\ Tick

\* the solves that exercise evaluateRootNode
NodeOptions ==
  [NoLimits EXCEPT !.mip_detect_symmetry = TRUE, !.time_limit = 1,
                   !.mip_max_improving_sols = 2,
                   !.mip_trivial_heuristics = "on"]
NodeConfigs ==
  {Config(NodeOptions, Integral(UNIT), <<>>, 0),
   Config([NodeOptions EXCEPT !.submip = TRUE, !.mip_max_improving_sols = 1,
                              !.mip_detect_symmetry = FALSE],
          NonIntegral, <<>>, 0)}

InitNode == \E c \in NodeConfigs : InitConfig(c)

NextNode ==
  \/ RunSetup \/ EvaluateRootNode \/ StartSymmetryDetection
  \/ StartAnalyticCenterComputation \/ LoadModel \/ RootLp \/ RootBasis \/ If
  \/ AddCuts \/ RemoveObsoleteRows \/ Heuristic \/ Cancel \/ CapRounds
  \/ TaskWait \/ PerformRestartAtRoot \/ BeginSeparation \/ Poll \/ Stall
  \/ Count \/ RootSeparationRound \/ Separation \/ RoundEnd
  \/ FinishAnalyticCenterComputation \/ SyncAnalyticCenter \/ FixAtCenter
  \/ Progress \/ Separate \/ SolvedAtRoot \/ SyncSymmetry
  \/ FinishSymmetryDetection \/ Seed \/ Leave \/ Join \/ Destroy
  \/ SymmetryTask
  \/ AnalyticCenterTask \/ AddIncumbentSearch \/ PerformRestartInSearch
  \/ TickToLimit

SpecNode == InitNode /\ [][NextNode]_vars

(************************* the basis over a restart ************************)
\* the rows and columns of the model before the first presolve
OrigNumRow == 3
OrigNumCol == 2

\* index maps of a reduced model: its rows (columns) in the order of their
\* original indices
IndexMaps(n) ==
  {m \in UNION {[1..k -> 1..n] : k \in 1..n} :
     \A a, b \in DOMAIN m : a < b => m[a] < m[b]}

\* the postsolve stack of a reduced model with one column
ReducedStacks ==
  {[origNumCol |-> OrigNumCol, origNumRow |-> OrigNumRow,
    origColIndex |-> <<k>>, origRowIndex |-> m] :
     k \in 1..OrigNumCol, m \in IndexMaps(OrigNumRow)}

\* the valid bases of a model with num_row rows and one column
Bases(num_row) ==
  {[valid |-> TRUE, col_status |-> <<c>>, row_status |-> r] :
     c \in {kBasic, kLower, kUpper}, r \in [1..num_row -> {kBasic, kLower}]}

\* what runPresolve leaves of a reduced model at a restart: some of its rows,
\* its column, and the cuts it kept, which go to the cut pool
BasisPresolves(s) ==
  {[status |-> kNotset, shift |-> s.shift, offset |-> s.offset_,
    num_row_ |-> Len(m), cutpool |-> kept,
    origColIndex |-> s.postSolveStack.origColIndex,
    origRowIndex |-> m \o [i \in 1..kept |-> OrigNumRow + i]] :
     m \in {q \in IndexMaps(OrigNumRow) :
              \A i \in DOMAIN q :
                \E j \in 1..s.num_row_ :
                  s.postSolveStack.origRowIndex[j] = q[i]},
     kept \in {0, numLpCuts(s)}}

\* a solve at the root of a reduced model, with the basis of its first root
\* LP and the cuts of its separation rounds
InitBasis ==
  \E stack \in ReducedStacks, cuts \in 0..MaxCuts :
    \E basis \in Bases(Len(stack.origRowIndex)) :
      InitAt(Config(NoLimits, NonIntegral, <<>>, 0), stack, basis,
             Len(stack.origRowIndex), cuts, "solve")

\* performRestart with a valid first root basis
PerformRestartBasis ==
  /\ pc = "solve"
  /\ numRestarts < MaxRestarts
  /\ \E presolve \in BasisPresolves(Cur), infeasible \in BOOLEAN :
       \E r \in {performRestart(Cur, RestartExt(presolve, infeasible))} :
           /\ Becomes(loadModel(r.s))
           /\ pc' = IF r.s.modelstatus_ = kNotset THEN "solve" ELSE "done"
           /\ call' = RestartCall(r)
  /\ UNCHANGED <<envVars, nodeVars>>

NextBasis == PerformRestartBasis

SpecBasis == InitBasis /\ [][NextBasis]_vars

(********************* the transformation of a solution ********************)
\* a solve in which candidates are transformed to the original space
InitTransform ==
  \E c \in BoundConfigs :
    InitAt(c, initializeIndexMaps(orig_model_.num_row_, orig_model_.num_col_),
           NoBasis, orig_model_.num_row_, 0, "solve")

\* transformNewIntegerFeasibleSolution(sol, possibly_store_as_new_incumbent)
\* on a candidate that postsolve turns into post
TransformNewIntegerFeasibleSolution ==
  /\ pc = "solve"
  /\ \E v \in ColValues, e \in PostErrors, possibly_store \in BOOLEAN :
       \E post \in {undoPrimal(Cur, <<v - shift>>, e)} :
         \E repair \in Repairs(post) :
           \E r \in {transformNewIntegerFeasibleSolution(
                        Cur, post, possibly_store, repair)} :
               /\ Becomes(r.s)
               /\ call' = [NoCall("transformNewIntegerFeasibleSolution") EXCEPT
                             !.checks = r.checks, !.repairs = r.repairs,
                             !.stored = r.s # Cur,
                             !.verdict = IF r.feasible THEN "feasible"
                                         ELSE "infeasible"]
  /\ UNCHANGED <<envVars, pc, nodeVars>>

NextTransform == TransformNewIntegerFeasibleSolution

SpecTransform == InitTransform /\ [][NextTransform]_vars

(************************* a model without columns *************************)
\* the solves of a model whose column presolve fixed at the value shift
EmptyConfigs ==
  {Config(o, of, start, sh) :
     o \in {NoLimits, Maximize, SubMip}, of \in {NonIntegral, Integral(UNIT)},
     start \in {<<>>, <<2 * UNIT>>}, sh \in {0, UNIT, 2 * UNIT}}

\* the index maps of a reduced model without columns
noColumns(stack) == [stack EXCEPT !.origColIndex = <<>>]

\* the solves of a model whose column is of any type; the time limit of
\* OutOfTime is reached when runSetup asks checkLimits
OutOfTime == [NoLimits EXCEPT !.time_limit = 0]
TypedConfigs ==
  {Config([o EXCEPT !.integrality = t], of, <<>>, sh) :
     o \in {NoLimits, Maximize, OutOfTime},
     t \in {kContinuous, kInteger, kImplicitInteger, kSemiContinuous,
            kSemiInteger},
     of \in {NonIntegral, Integral(UNIT)}, sh \in {0, UNIT}}

InitSetup ==
  \/ \E c \in EmptyConfigs :
       InitAt(c, noColumns(initializeIndexMaps(orig_model_.num_row_,
                                               orig_model_.num_col_)),
              NoBasis, orig_model_.num_row_, 0, "setup")
  \/ \E c \in TypedConfigs : InitConfig(c)

\* the collaborators of runSetup; the ones of the addIncumbent call on the
\* empty solution matter for a model without columns only
SetupExts(s) ==
  {[ie EXCEPT !.setupInfeasible = infeasible] :
     infeasible \in BOOLEAN,
     ie \in {e \in IncumbentExts(s, <<>>, PostErrors) :
               numCol(s) = 0 \/ (e.post[1] = s.shift /\ e.domain = "unchanged")}}

\* runSetup, with the way it is left: pc is "fatal" after the exception.
\* The verdict is on the image of the empty solution in the original space:
\* feasible as postsolve returns it, feasible after the repair, or
\* infeasible
RunSetupExit ==
  /\ pc = "setup"
  /\ \E ie \in SetupExts(Cur) :
       \E ext \in {[numBin |-> 0] @@ ie} :
         \E r \in {runSetupExit(Cur, ext)} :
           /\ Becomes(r.s)
           /\ pc' = IF r.exit = "throw" THEN "fatal"
                    ELSE IF r.s.modelstatus_ = kNotset THEN "solve"
                    ELSE "done"
           /\ call' = [NoCall("runSetup") EXCEPT
                         !.exit = r.exit,
                         !.verdict =
                           IF WithinTolerance(ext.post) THEN "feasible"
                           ELSE IF WithinTolerance(FinalCandidate(ext))
                                THEN "repaired" ELSE "infeasible"]
  /\ UNCHANGED <<envVars, nodeVars>>

NextSetup == RunSetupExit

\* runSetup on models without columns and on models with a column of any
\* type
SpecSetup == InitSetup /\ [][NextSetup]_vars

(***************************** limitsToBounds ******************************)
\* mipdata_->epsilon where a bound is compared with zero: one tick, far
\* below the feasibility tolerance
epsilon == ULP

\* if (std::abs(v) <= epsilon) v = 0
snapToZero(v) == IF Abs(v) <= epsilon THEN 0 ELSE v

\* a quotient that is no number: infinity over infinity
NaN == -1

\* 100. * a / b for a >= 0 and b > 0, in ticks of a percent
Percent(a, b) ==
  IF IsInf(a) /\ IsInf(b) THEN NaN
  ELSE IF IsInf(a) THEN kHighsInf
  ELSE IF IsInf(b) THEN 0
  ELSE (100 * UNIT * a) \div b

\* the gap of the bound after the cap by objective_bound
gapOfCapped(s, dual_bound, primal_bound) ==
  Percent(Min2(s.options.objective_bound, primal_bound) - dual_bound,
          Abs(Min2(s.options.objective_bound, primal_bound)))

\* 100. * (primal_bound - dual_bound) / fabs(primal_bound)
gapOf(s, dual_bound, primal_bound) ==
  Percent(IF IsInf(dual_bound) THEN kHighsInf ELSE primal_bound - dual_bound,
          Abs(primal_bound))

limitsToBounds(s) ==
  LET offset == s.offset_
      dual0 == snapToZero(Plus(s.lower_bound, offset))
      primal0 == IF s.upper_bound # kHighsInf
                 THEN snapToZero(s.upper_bound + offset)
                 ELSE kHighsInf
      dual1 == IF s.upper_bound # kHighsInf THEN Min2(dual0, primal0)
               ELSE dual0
      gap == IF s.upper_bound # kHighsInf
             THEN IF primal0 = 0
                  THEN IF dual1 = 0 THEN 0 ELSE kHighsInf
                  ELSE gapOf(s, dual1, primal0)
             ELSE kHighsInf
      primal1 == Min2(s.options.objective_bound, primal0)
  IN  [dual_bound |-> s.options.sense * dual1,
       primal_bound |-> s.options.sense * primal1,
       mip_rel_gap |-> gap]

\* the bounds limitsToBounds is called with, for a model of offset offset:
\* none, and values around zero in the space of the original model
LowerBounds(offset) ==
  {-kHighsInf} \cup {v - offset : v \in {-UNIT, 0, ULP, UNIT}}
UpperLimits(offset) ==
  {kHighsInf} \cup {v - offset : v \in {-UNIT, -ULP, 0, UNIT, 3 * UNIT}}

InitDisplay ==
  \E c \in BoundConfigs :
    \E lb \in LowerBounds(modelOffset(c.options.sense, c.shift)), ub \in UpperLimits(modelOffset(c.options.sense, c.shift)) :
      InitBounds(c, initializeIndexMaps(orig_model_.num_row_,
                                        orig_model_.num_col_),
                 NoBasis, orig_model_.num_row_, 0, "solve", lb, ub)

\* limitsToBounds(dual_bound, primal_bound, mip_rel_gap)
LimitsToBounds ==
  /\ pc = "solve"
  /\ \E r \in {limitsToBounds(Cur)} :
       call' = [NoCall("limitsToBounds") EXCEPT
                  !.value = <<r.dual_bound, r.primal_bound, r.mip_rel_gap>>]
  /\ Becomes(Cur)
  /\ UNCHANGED <<envVars, pc, nodeVars>>

\* the primal bound is shown as computed
notCapped(s, ub) == ub

\* if (mipsolver.options_mip_->objective_bound < ub)
\*   ub = mipsolver.options_mip_->objective_bound
capByObjectiveBound(s, ub) ==
  IF s.options.objective_bound < ub THEN s.options.objective_bound ELSE ub

\* lb, ub and gap as printDisplayLine has them at its end, before the sense
\* of the original model is applied
displayBounds(s) ==
  Only({IF s.upper_bound # kHighsInf
        THEN Only({[lb |-> Min2(ub, lb0), ub |-> capByObjectiveBound(s, ub),
                    gap |-> IF ub = 0
                            THEN IF Min2(ub, lb0) = 0 THEN 0 ELSE kHighsInf
                            ELSE gapOf(s, Min2(ub, lb0), ub)] :
                     ub \in {snapToZero(s.upper_bound + s.offset_)}})
        ELSE [lb |-> lb0, ub |-> capByObjectiveBound(s, kHighsInf),
              gap |-> kHighsInf] :
          lb0 \in {snapToZero(Plus(s.lower_bound, s.offset_))}})

\* printDisplayLine(solution_source): nothing is computed when logging is off
\* or the line comes too early after the last one; the line and the logging
\* callback leave the solver data as they are
printDisplayLine(s, output_flag, early) ==
  IF ~output_flag \/ early
  THEN [printed |-> FALSE, value |-> <<>>]
  ELSE Only({[printed |-> TRUE,
              value |-> <<s.options.sense * d.lb, s.options.sense * d.ub,
                          d.gap>>] :
               d \in {displayBounds(s)}})

PrintDisplayLine ==
  /\ pc = "solve"
  /\ \E output_flag \in BOOLEAN, early \in BOOLEAN :
       \E r \in {printDisplayLine(Cur, output_flag, early)} :
         call' = [NoCall("printDisplayLine") EXCEPT
                    !.ret = r.printed, !.value = r.value]
  /\ Becomes(Cur)
  /\ UNCHANGED <<envVars, pc, nodeVars>>

NextDisplay == LimitsToBounds \/ PrintDisplayLine

SpecDisplay == InitDisplay /\ [][NextDisplay]_vars

(*************************** the cutoff of a bound **************************)
\* the upper bounds a cutoff is computed of: the objective values of the
\* model's range and, for an objective without integral scale, doubles
\* around Coarse
UpperBounds(of) ==
  (-(3 * UNIT) .. 3 * UNIT)
    \cup (IF of.isIntegral
          THEN {}
          ELSE {m * (Coarse + d * Spacing) : m \in {-1, 1}, d \in 0 .. 2})
\* mip_abs_gap and mip_rel_gap of a call
AbsGaps == {0, UNIT}
RelGaps == {0, 1}

InitCutoff ==
  \E c \in BoundConfigs :
    InitAt(c, initializeIndexMaps(orig_model_.num_row_, orig_model_.num_col_),
           NoBasis, orig_model_.num_row_, 0, "solve")

\* computeNewUpperLimit(ub, mip_abs_gap, mip_rel_gap)
ComputeNewUpperLimit ==
  /\ pc = "solve"
  /\ \E ub \in UpperBounds(objectiveFunction), mip_abs_gap \in AbsGaps, mip_rel_gap \in RelGaps :
       call' = [NoCall("computeNewUpperLimit") EXCEPT
                  !.args = <<ub, mip_abs_gap, mip_rel_gap>>,
                  !.value = <<computeNewUpperLimit(Cur, ub, mip_abs_gap,
                                                   mip_rel_gap)>>]
  /\ Becomes(Cur)
  /\ UNCHANGED <<envVars, pc, nodeVars>>

NextCutoff == ComputeNewUpperLimit

SpecCutoff == InitCutoff /\ [][NextCutoff]_vars

(***************************************************************************)
(* Properties of the incumbent and bound manager                           *)
(***************************************************************************)
\* the step is a call of addIncumbent, directly or through trySolution
IncumbentCall == call'.op \in {"addIncumbent", "trySolution"}
\* the step lowers upper_bound: the candidate is accepted for bounding
Accepts == IncumbentCall /\ upper_bound' < upper_bound
\* the objective function and offset computeNewUpperLimit reads after the step
After == [objectiveFunction |-> objectiveFunction', offset_ |-> offset_',
          options |-> options']
\* the violations recorded with the stored solution are within the tolerance
StoredFeasible ==
  /\ solution_objective_ # kHighsInf
  /\ bound_violation_ <= FEASTOL
  /\ integrality_violation_ <= FEASTOL
  /\ row_violation_ <= FEASTOL

\* C2: across addIncumbent/trySolution calls upper_bound never increases: a
\* call that stores a new incumbent strictly lowers it and every other call
\* leaves it unchanged
C2_UpperBoundNeverIncreases ==
  [][IncumbentCall =>
       /\ upper_bound' <= upper_bound
       /\ call'.stored => upper_bound' < upper_bound
       /\ ~call'.stored => upper_bound' = upper_bound]_vars

\* two incumbents were stored one after the other, the last by this call
C2_Witness ==
  /\ call.op = "addIncumbent" /\ call.stored /\ call.ret
  /\ numImprovingSols >= 2
  /\ options.sense = 1
  /\ upper_bound < kHighsInf

\* C4: whenever a call lowers upper_bound, the original-space solution stored
\* with it violates the bounds, the integrality and the rows of the original
\* model by at most the feasibility tolerance
C4_AcceptedIsFeasible ==
  [][Accepts =>
       /\ solution_' # <<>>
       /\ WithinTolerance(solution_')
       /\ bound_violation_' <= FEASTOL
       /\ integrality_violation_' <= FEASTOL
       /\ row_violation_' <= FEASTOL]_vars

\* a candidate that is integral only up to the tolerance was accepted
C4_Witness ==
  /\ call.op \in {"addIncumbent", "trySolution"} /\ call.stored
  /\ upper_bound < kHighsInf
  /\ integrality_violation_ = FEASTOL
  /\ solution_objective_ * options.sense - offset_ = upper_bound

\* C5 as stated: after every call that lowers upper_bound to v,
\* upper_limit <= v - feastol, for integral and non-integral objectives
C5_MarginForEveryObjective ==
  [][Accepts => upper_limit' <= upper_bound' - FEASTOL]_vars

\* C5 amended: after every call that lowers upper_bound to v, upper_limit <=
\* v - feastol for a non-integral objective and upper_limit <= v - 1/(2*scale)
\* + feastol for an integral objective with scale 1/step
C5_MarginByObjectiveKind ==
  [][Accepts =>
       IF objectiveFunction.isIntegral
       THEN 2 * upper_limit'
              <= 2 * upper_bound' - objectiveFunction.step + 2 * FEASTOL
       ELSE upper_limit' <= upper_bound' - FEASTOL]_vars

\* an integral objective whose step is the tolerance: the cutoff recomputed
\* by the accepting call equals the new upper_bound
C5_Witness ==
  /\ call.op \in {"addIncumbent", "trySolution"} /\ call.stored
  /\ objectiveFunction.isIntegral
  /\ upper_bound < kHighsInf
  /\ upper_limit = upper_bound

\* C6 as stated: every addIncumbent call, and the MIP-start handling of
\* runSetup, that lowers upper_bound leaves both cutoffs at the values
\* computed from the new upper_bound
C6_CutoffsFollowUpperBound ==
  [][(call'.op \in {"addIncumbent", "trySolution", "runSetup"}
      /\ upper_bound' < upper_bound) =>
       /\ upper_limit' = computeNewUpperLimit(After, upper_bound', 0, 0)
       /\ optimality_limit' =
            computeNewUpperLimit(After, upper_bound', options.mip_abs_gap,
                                 options.mip_rel_gap)]_vars

\* C6 amended: a call that lowers upper_bound recomputes both cutoffs from
\* the new upper_bound if the zero-gap cutoff of the new upper_bound is below
\* the current upper_limit, and leaves both unchanged otherwise (in runSetup
\* the current cutoffs are the ones shifted by the model offset)
C6_CutoffsRecomputedTogether ==
  [][(call'.op \in {"addIncumbent", "trySolution", "runSetup"}
      /\ upper_bound' < upper_bound) =>
       LET moved == call'.op = "runSetup"
           cur_upper_limit ==
             IF moved THEN Plus(upper_limit, -offset_) ELSE upper_limit
           cur_optimality_limit ==
             IF moved THEN Plus(optimality_limit, -offset_)
             ELSE optimality_limit
           new_upper_limit == computeNewUpperLimit(After, upper_bound', 0, 0)
       IN  IF new_upper_limit < cur_upper_limit
           THEN /\ upper_limit' = new_upper_limit
                /\ optimality_limit' =
                     computeNewUpperLimit(After, upper_bound',
                                          options.mip_abs_gap,
                                          options.mip_rel_gap)
           ELSE /\ upper_limit' = cur_upper_limit
                /\ optimality_limit' = cur_optimality_limit]_vars

\* a second incumbent was accepted and the cutoffs kept their values:
\* optimality_limit is not the one of the new upper_bound
C6_Witness ==
  /\ call.op \in {"addIncumbent", "trySolution"} /\ call.stored
  /\ upper_bound < kHighsInf
  /\ numImprovingSols = 1
  /\ ~(computeNewUpperLimit(Cur, upper_bound, 0, 0) < upper_limit)
  /\ optimality_limit # computeNewUpperLimit(Cur, upper_bound,
                                             options.mip_abs_gap,
                                             options.mip_rel_gap)

\* C7: after an addIncumbent call, whenever upper_bound is finite the stored
\* solution and objective are those of the candidate that produced
\* upper_bound, and a feasible candidate that does not lower upper_bound
\* does not replace the stored solution
C7_IncumbentPairedWithUpperBound ==
  [][IncumbentCall =>
       /\ upper_bound' < kHighsInf =>
            options.sense * solution_objective_' - offset_' = upper_bound'
       /\ (call'.verdict = "feasible" /\ upper_bound' = upper_bound) =>
            solution_' = solution_]_vars

\* C8: when the candidate of a storing transformation is still infeasible
\* after the repair attempt, the call does not lower upper_bound and returns
\* false, the stored solution is overwritten only if no feasible solution is
\* stored, and a feasible stored solution is never replaced by an infeasible
\* one
C8_InfeasibleOnlyAsFallback ==
  [][IncumbentCall =>
       /\ call'.verdict = "infeasible" =>
            /\ upper_bound' = upper_bound
            /\ ~call'.ret
            /\ StoredFeasible =>
                 UNCHANGED <<solution_, solution_objective_, bound_violation_,
                             integrality_violation_, row_violation_>>
            /\ ~StoredFeasible => ~WithinTolerance(solution_')
       /\ (StoredFeasible /\ solution_' # solution_) =>
            WithinTolerance(solution_')]_vars

\* an infeasible candidate met a feasible stored solution and left it alone
C8_Witness ==
  /\ call.op \in {"addIncumbent", "trySolution"}
  /\ call.verdict = "infeasible"
  /\ StoredFeasible
  /\ upper_bound < kHighsInf

\* C9: trySolution returns false and leaves the solver data unchanged if the
\* candidate has the wrong length, a column value outside its bounds by more
\* than the tolerance, an integer column further than the tolerance from
\* the nearest integer, or a row activity outside the row bounds by more
\* than the tolerance
C9_DefectiveCandidateRejected ==
  [][(call'.op = "trySolution" /\ call'.defect # "none") =>
       /\ ~call'.ret
       /\ UNCHANGED dataVars]_vars

\* a candidate above the column's upper bound by twice the tolerance was
\* rejected while an incumbent exists
C9_Witness ==
  /\ call.op = "trySolution" /\ call.defect = "column" /\ ~call.ret
  /\ upper_bound < kHighsInf

(***************************************************************************)
(* Properties of the limit checker                                         *)
(***************************************************************************)
\* the limit conditions, stated on the state a checkLimits call starts in
InterruptRequested ==
  /\ ~options.submip
  /\ options.user_callback /\ options.callback_mip_interrupt
  /\ user_interrupt
TargetReached ==
  /\ ~options.submip
  /\ solution_objective_ # kHighsInf
  /\ options.objective_target # -kHighsInf
  /\ IF options.sense = 1
     THEN solution_objective_ < options.objective_target
     ELSE solution_objective_ > options.objective_target
NodeLimitReached(nodeOffset) ==
  /\ options.mip_max_nodes # kHighsIInf
  /\ num_nodes + nodeOffset >= options.mip_max_nodes
LeafLimitReached ==
  /\ options.mip_max_leaves # kHighsIInf
  /\ num_leaves >= options.mip_max_leaves
SolutionLimitReached ==
  /\ options.mip_max_improving_sols # kHighsIInf
  /\ numImprovingSols >= options.mip_max_improving_sols
TimeLimitReached == timer >= options.time_limit

\* the conditions in the order of the claim, each with its status
LimitOrder(nodeOffset) ==
  <<[holds |-> InterruptRequested, status |-> kInterrupt],
    [holds |-> TargetReached, status |-> kObjectiveTarget],
    [holds |-> NodeLimitReached(nodeOffset), status |-> kSolutionLimit],
    [holds |-> LeafLimitReached, status |-> kSolutionLimit],
    [holds |-> SolutionLimitReached, status |-> kSolutionLimit],
    [holds |-> TimeLimitReached, status |-> kTimeLimit]>>
Holding(nodeOffset) ==
  {i \in 1..Len(LimitOrder(nodeOffset)) : LimitOrder(nodeOffset)[i].holds}
FirstHolding(nodeOffset) ==
  LimitOrder(nodeOffset)[CHOOSE i \in Holding(nodeOffset) :
                           \A j \in Holding(nodeOffset) : i <= j]

\* everything checkLimits may not touch
exceptStatus ==
  <<lower_bound, upper_bound, upper_limit, optimality_limit, incumbent,
    solution_, solution_objective_, bound_violation_, integrality_violation_,
    row_violation_, numImprovingSols, pruned_treeweight, num_nodes,
    num_leaves, nodequeue, offset_, shift, numRestarts, domain_infeasible,
    changedCols, lp, num_row_, cutpool, postSolveStack, firstrootbasis,
    rootbasis, detectSymmetries, symmetries, analyticCenterComputed,
    analyticCenterStatus, analyticCenter>>

\* C1: once the model status is set no checkLimits call changes it, and a
\* call made while a limit condition holds returns true, with the status
\* value as it was if it was set
C1_StatusSetOnce ==
  [][call'.op = "checkLimits" =>
       /\ modelstatus_ # kNotset => modelstatus_' = modelstatus_
       /\ Holding(call'.nodeOffset) # {} => call'.ret
       /\ UNCHANGED exceptStatus]_vars

\* a second call after the time limit was hit: the interrupt is now
\* requested as well, the call says stop and the status is still the time
\* limit
C1_Witness ==
  /\ call.op = "checkLimits" /\ call.ret /\ ~call.statusSet
  /\ modelstatus_ = kTimeLimit
  /\ InterruptRequested

\* C10: a checkLimits call returns true iff at least one limit condition
\* holds, and if the status is still not set it becomes the status of the
\* first condition that holds in the order user interrupt, objective
\* target, node limit, leaf limit, improving-solution limit, time limit
C10_FirstLimitInOrder ==
  [][call'.op = "checkLimits" =>
       /\ call'.ret <=> Holding(call'.nodeOffset) # {}
       /\ modelstatus_ = kNotset =>
            modelstatus_' = IF Holding(call'.nodeOffset) = {} THEN kNotset
                            ELSE FirstHolding(call'.nodeOffset).status]_vars

\* the objective target set the status although the node limit, the
\* improving-solution limit and the time limit hold as well
C10_Witness ==
  /\ call.op = "checkLimits" /\ call.ret /\ call.statusSet
  /\ modelstatus_ = kObjectiveTarget
  /\ ~InterruptRequested
  /\ NodeLimitReached(call.nodeOffset)
  /\ TimeLimitReached

(***************************************************************************)
(* Properties of the bounds at the root                                    *)
(***************************************************************************)
\* C3 as stated: in every reachable state in which lower_bound and
\* upper_bound are both finite, lower_bound <= upper_bound + feastol
C3_LowerBelowUpper ==
  (~IsInf(lower_bound) /\ ~IsInf(upper_bound)) =>
    lower_bound <= upper_bound + FEASTOL

\* C3 amended: whenever evaluateRootLp returns the LP status through its
\* last return statement, lower_bound <= optimality_limit, and so
\* lower_bound <= upper_bound + feastol if upper_bound is finite
C3_LowerBelowLimitAtNormalExit ==
  [][(call'.op = "evaluateRootLp" /\ call'.exit = "normal") =>
       /\ lower_bound' <= optimality_limit'
       /\ ~IsInf(upper_bound') => lower_bound' <= upper_bound' + FEASTOL]_vars

\* the root LP was evaluated with an incumbent at hand and the loop ended
\* at its last return statement with a finite lower bound
C3_Witness ==
  /\ call.op = "evaluateRootLp" /\ call.exit = "normal"
  /\ ~IsInf(lower_bound) /\ ~IsInf(upper_bound)
  /\ lp.solved

(***************************************************************************)
(* Properties of evaluateRootNode                                          *)
(***************************************************************************)
\* the step is a checkLimits poll of evaluateRootNode
PollStep == call'.op = "evaluateRootNode" /\ call'.step = "poll"

\* the polls inside the separation loop
LoopPolls == {"poll1535", "poll1555", "poll1560"}

\* what the search thread owns of the solver data
searchData ==
  <<modelstatus_, lower_bound, upper_bound, upper_limit, optimality_limit,
    incumbent, solution_, solution_objective_, numImprovingSols,
    pruned_treeweight, num_nodes, num_leaves, nodequeue, offset_, shift,
    numRestarts, domain_infeasible, changedCols, lp, num_row_, cutpool,
    postSolveStack, firstrootbasis, rootbasis, detectSymmetries, symmetries,
    analyticCenterComputed>>

\* C11 as stated: a poll inside the separation loop that finds the time
\* limit reached and the model status not set makes the status the time
\* limit status, and evaluateRootNode returns
C11_TimeLimitStatusAtPoll ==
  [][(/\ PollStep
      /\ root.at \in LoopPolls
      /\ modelstatus_ = kNotset
      /\ TimeLimitReached)
       => modelstatus_' = kTimeLimit /\ root'.at = "return"]_vars

\* C11: a poll inside the separation loop that finds the time limit reached
\* and the model status not set answers stop and sets the status of the
\* first limit that holds in the order of checkLimits, the time limit status
\* if no other limit holds; after any poll that answers stop evaluateRootNode
\* is at its return, and from there it only cancels and joins its tasks:
\* nothing of the search thread's data changes, no node is added and no
\* restart is made
C11_StopsAtPoll ==
  [][/\ (/\ PollStep
         /\ root.at \in LoopPolls
         /\ modelstatus_ = kNotset
         /\ TimeLimitReached)
          => /\ call'.ret
             /\ modelstatus_' = FirstHolding(0).status
             /\ (Holding(0) = {6} => modelstatus_' = kTimeLimit)
     /\ (PollStep /\ call'.ret) => root'.at = "return"
     /\ root.at \in {"return", "join", "destroy"}
          => /\ root'.at \in {"return", "join", "destroy", "done"}
             /\ UNCHANGED searchData]_vars

\* the time limit was reached after the first separation round and the
\* poll at the head of the loop stopped the root with the time limit status
C11_Witness ==
  /\ call.op = "evaluateRootNode" /\ call.step = "poll"
  /\ call.at \in LoopPolls
  /\ call.ret
  /\ modelstatus_ = kTimeLimit
  /\ root.at = "return"
  /\ root.nseparounds >= 1
  /\ nodequeue = <<>>

\* the separation loop was left because of the inactive integer columns and
\* the model was not presolved again since
RestartPending == root.stall = -1 /\ root.fixingRate >= 10

\* the statements from the restart decision after the root to the restart
RestartPath == {"cancel1744", "cap1748", "wait1749", "restart1750"}

\* C12 as stated: once the separation loop is left because 10 percent or
\* more of the integer columns are inactive, the restart is made:
\* evaluateRootNode comes to a return statement only out of performRestart
C12_RestartAfterLoopLeft ==
  [][(/\ RestartPending
      /\ root.at \notin {"return", "join", "destroy", "done"}
      /\ root'.at = "return")
       => call'.step = "performRestart"]_vars

\* C12: in a run that is no sub-MIP and has presolve enabled, a test at the
\* loop boundary that finds 10 percent or more of the integer columns
\* inactive leaves the loop with stall = -1; from then on no root node is
\* added before performRestart is called, the test after the root decides
\* for the restart, the statements that follow it lead to performRestart
\* only, and the performRestart call adds exactly one to numRestarts
C12_RestartUnlessReturned ==
  [][/\ (/\ call'.step = "if" /\ root.at = "if1544"
         /\ root'.fixingRate >= 10)
          => /\ ~options.submip /\ options.presolve
             /\ root'.at = "stall1545"
     /\ call'.step = "stall"
          => root'.stall = -1 /\ root'.at = "lp1614"
     /\ (RestartPending /\ call'.op = "evaluateRootNode")
          => /\ call'.step # "seed"
             /\ nodequeue' = <<>>
     /\ (RestartPending /\ root.at = "if1742")
          => root'.at \in {"if1742", "cancel1744"}
     /\ root.at \in RestartPath
          => root'.at \in RestartPath \/ call'.step = "performRestart"
     /\ call'.step = "performRestart"
          => numRestarts' = numRestarts + 1]_vars

\* the loop was left after a round, and the restart after the root is made
C12_Witness ==
  /\ call.step = "performRestart" /\ call.at = "restart1750"
  /\ root.stall = -1
  /\ root.nseparounds >= 1
  /\ numRestarts = 1
  /\ nodequeue = <<>>

\* C13 as stated: pruned_treeweight stays within [0,1] and never decreases
C13_TreeWeightNeverDecreases ==
  [][/\ pruned_treeweight' \in 0..1
     /\ pruned_treeweight' >= pruned_treeweight]_vars

\* C13: pruned_treeweight stays within [0,1]; no step but a performRestart
\* call decreases it; performRestart sets it to 0, and it is 1 when the call
\* returns only if runSetup found the newly presolved model infeasible
C13_TreeWeightResetByRestart ==
  [][/\ pruned_treeweight' \in 0..1
     /\ call'.op # "performRestart"
          => pruned_treeweight' >= pruned_treeweight
     /\ call'.op = "performRestart"
          => pruned_treeweight' =
               IF call'.exit = "setup" /\ domain_infeasible' THEN 1 ELSE 0]_vars

\* the open root node was pruned by the bounding of an incumbent, then the
\* search restarted: the weight is 0 again and the root is evaluated anew
C13_Witness ==
  /\ call.op = "performRestart"
  /\ call.step = "none"
  /\ numImprovingSols >= 1
  /\ num_leaves = 0
  /\ pruned_treeweight = 0
  /\ upper_bound # kHighsInf
  /\ modelstatus_ = kNotset

(***************************************************************************)
(* Properties of the background tasks                                      *)
(***************************************************************************)
\* the tasks of the group that are spawned and not joined
Outstanding == {task \in DOMAIN tg : tg[task] # "none"}

\* C14: evaluateRootNode calls performRestart only after it has requested
\* the cancellation of the task group and waited for every task: when it is
\* at tg.taskWait() no task runs without a cancellation request, and when it
\* is at performRestart(), and when that call has returned, no task is
\* spawned and not joined
C14_RestartAfterCancelAndWait ==
  /\ At("taskWait") => \A task \in Outstanding : tg[task] # "running"
  /\ At("performRestart") => Outstanding = {}
  /\ call.step = "performRestart" => Outstanding = {}

\* a restart of evaluateRootNode after the symmetry detection that the call
\* had spawned has left its result: the task was cancelled and joined
C14_Witness ==
  /\ call.op = "performRestart"
  /\ call.step = "performRestart"
  /\ root.symData \in {"none", "generators"}
  /\ numRestarts = 1

\* the data the background tasks write, as the search thread holds them
taskData ==
  [symData |-> root.symData, analyticCenterStatus |-> analyticCenterStatus,
   analyticCenter |-> analyticCenter]

\* C15: between the spawn of a background task and the join that follows it
\* the search thread neither reads nor writes the data the task writes
\* (analyticCenter and analyticCenterStatus, the symmetry result in symData):
\* a step of the search thread that touches one of them is made while its
\* writer is not spawned or is joined, and no step of the search thread
\* changes one of them while its writer is spawned and not joined
C15_TaskDataUntouchedUntilJoin ==
  [][/\ \A d \in call'.touches : tg[Writer[d]] = "none"
     /\ call'.op # "task"
          => \A d \in DOMAIN Writer :
               tg[Writer[d]] # "none" => taskData'[d] = taskData[d]]_vars

\* finishAnalyticCenterComputation has read the center that the task left,
\* after its join, while the symmetry detection is still not joined
C15_Witness ==
  /\ call.op = "evaluateRootNode"
  /\ call.step = "fixAtCenter"
  /\ "analyticCenter" \in call.touches
  /\ analyticCenterStatus = kOptimal
  /\ tg.analyticCenter = "none"
  /\ tg.symmetry \in {"running", "finished"}

(***************************************************************************)
(* Properties of the restart                                               *)
(***************************************************************************)
\* the step is a performRestart call that went through runSetup to its end
RestartToSetup ==
  /\ call'.op = "performRestart"
  /\ call'.exit = "setup"
  /\ modelstatus_' = kNotset

\* C16: the basis round trip across a restart: for every row and column
\* index i of the new reduced model, the status basisTransfer hands to the
\* new root LP is the status the first root basis had before the restart at
\* the row (column) whose original index is the one the new index map
\* assigns to i, which is where performRestart wrote it
C16_BasisRoundTrip ==
  [][(RestartToSetup /\ firstrootbasis.valid)
       => /\ firstrootbasis'.valid
          /\ DOMAIN firstrootbasis'.col_status = 1..numCol(Cur)
          /\ DOMAIN firstrootbasis'.row_status = 1..num_row_'
          /\ \A i \in 1..numCol(Cur) :
               \E j \in 1..numCol(Cur) :
                 /\ postSolveStack.origColIndex[j]
                      = postSolveStack'.origColIndex[i]
                 /\ firstrootbasis'.col_status[i]
                      = firstrootbasis.col_status[j]
          /\ \A i \in 1..num_row_' :
               \E j \in 1..num_row_ :
                 /\ postSolveStack.origRowIndex[j]
                      = postSolveStack'.origRowIndex[i]
                 /\ firstrootbasis'.row_status[i]
                      = firstrootbasis.row_status[j]]_vars

\* after a restart that folded a cut, the row of the new model is the third
\* original row and the column the second original column, and each has the
\* nonbasic status it had before
C16_Witness ==
  /\ call.op = "performRestart"
  /\ call.exit = "setup"
  /\ call.numCuts = 1
  /\ modelstatus_ = kNotset
  /\ postSolveStack.origColIndex = <<2>>
  /\ postSolveStack.origRowIndex = <<3>>
  /\ firstrootbasis.valid
  /\ firstrootbasis.col_status = <<kUpper>>
  /\ firstrootbasis.row_status = <<kLower>>

\* the statements of evaluateRootNode from its return on
Returning == {"return", "join", "destroy"}

\* C17: evaluateRootNode adds a root node to the node queue at most once per
\* call and only when lower_bound <= upper_limit, carrying the current
\* lower_bound: a step of the call that adds to the queue adds the one node
\* to the empty queue and goes to the return, and from the return on the
\* queue is kept; when lower_bound > upper_limit at the test after the
\* heuristics the call sets the status to optimal, marks the tree fully
\* pruned, adds no node and returns
C17_RootSeededOnce ==
  [][/\ (call'.op = "evaluateRootNode" /\ nodequeue' # nodequeue)
          => /\ lower_bound <= upper_limit
             /\ nodequeue = <<>>
             /\ nodequeue' = <<[lower_bound |-> lower_bound, weight |-> 1]>>
             /\ root'.at = "return"
     /\ root.at \in Returning => nodequeue' = nodequeue
     /\ (root.at = "if1710" /\ root'.at # root.at /\ lower_bound > upper_limit)
          => root'.at = "optimal"
     /\ (root.at = "optimal" /\ root'.at # root.at)
          => /\ modelstatus_' = kOptimal
             /\ pruned_treeweight' = 1
             /\ nodequeue' = nodequeue
             /\ root'.at = "return"]_vars

\* the root node is seeded while an incumbent is known: its lower bound is
\* within the upper limit and the node carries it
C17_Witness ==
  /\ call.op = "evaluateRootNode"
  /\ call.step = "seed"
  /\ root.at = "return"
  /\ upper_limit # kHighsInf
  /\ lower_bound # -kHighsInf
  /\ lower_bound <= upper_limit
  /\ nodequeue = <<[lower_bound |-> lower_bound, weight |-> 1]>>

\* the step is a performRestart call made by evaluateRootNode
RestartAtRoot == call'.op = "performRestart" /\ call'.step = "performRestart"

\* C18: if presolve inside performRestart determines the model status,
\* performRestart returns before runSetup (the data runSetup resets are
\* kept) with lower_bound = upper_bound and the status set, and
\* evaluateRootNode then is at its return, from which it neither evaluates
\* the root again nor adds a node; after a restart the root is evaluated
\* again only if the status is still not set
C18_NoRootAfterSolvingPresolve ==
  [][/\ (call'.op = "performRestart" /\ call'.exit = "presolve")
          => /\ lower_bound' = upper_bound'
             /\ modelstatus_' # kNotset
             /\ nodequeue' = <<>>
             /\ call'.touches = {}
             /\ analyticCenterComputed' = analyticCenterComputed
             /\ detectSymmetries' = detectSymmetries
             /\ firstrootbasis' = firstrootbasis
     /\ RestartAtRoot
          => /\ modelstatus_' # kNotset => root'.at = "return"
             /\ modelstatus_' = kNotset => root'.at = "restart"
     /\ root.at \in Returning
          => /\ root'.at \in Returning \cup {"done"}
             /\ nodequeue' = nodequeue
             /\ modelstatus_' = modelstatus_]_vars

\* presolve solved the model at a restart of evaluateRootNode: the bounds
\* meet, the status is optimal and the call is at its return
C18_Witness ==
  /\ call.op = "performRestart"
  /\ call.step = "performRestart"
  /\ call.exit = "presolve"
  /\ modelstatus_ = kOptimal
  /\ lower_bound = upper_bound
  /\ upper_bound # kHighsInf
  /\ root.at = "return"
  /\ nodequeue = <<>>

\* C19: every performRestart call that folds the cuts of the LP into the
\* model before presolve un-folds as many before it returns, on every return
\* path: the postsolve stack has as many original rows after the call as
\* before it
C19_CutsUnfoldedOnReturn ==
  [][call'.op = "performRestart"
       => postSolveStack'.origNumRow = postSolveStack.origNumRow]_vars

\* a limit or bound v of the model with the offset off, in the original space
OriginalSpace(v, off) == Plus(v, off)

\* C20: the offset round trip across a restart whose presolve leaves the
\* status undetermined: for each of upper_limit, optimality_limit,
\* upper_bound and lower_bound, the value in the original space (the field
\* plus the offset of the current model) is the same before the restart and
\* right after the conversion in runSetup
C20_OffsetRoundTrip ==
  [][(call'.op = "performRestart" /\ call'.exit = "setup")
       => /\ OriginalSpace(call'.converted.upper_limit, offset_')
               = OriginalSpace(upper_limit, offset_)
          /\ OriginalSpace(call'.converted.optimality_limit, offset_')
               = OriginalSpace(optimality_limit, offset_)
          /\ OriginalSpace(call'.converted.upper_bound, offset_')
               = OriginalSpace(upper_bound, offset_)
          /\ OriginalSpace(call'.converted.lower_bound, offset_')
               = OriginalSpace(lower_bound, offset_)]_vars

\* the first restart of a solve that began without a column shift, and whose
\* presolve shifted the column: the offset of the model changed from 0, and
\* the finite bounds and limits were converted to the new model
C20_Witness ==
  /\ call.op = "performRestart"
  /\ call.exit = "setup"
  /\ modelstatus_ = kNotset
  /\ objectiveFunction = NonIntegral
  /\ numRestarts = 1
  /\ shift = UNIT
  /\ offset_ # 0
  /\ ~IsInf(call.converted.lower_bound)
  /\ ~IsInf(call.converted.upper_bound)
  /\ ~IsInf(call.converted.upper_limit)
  /\ ~IsInf(call.converted.optimality_limit)

(***************************************************************************)
(* Properties of transformNewIntegerFeasibleSolution                       *)
(***************************************************************************)
\* C21: in a call of transformNewIntegerFeasibleSolution the repair LP is
\* solved at most once and the violations are computed at most twice, a
\* second time only after a repair; the call comes to its end for every
\* candidate and every outcome of the repair LP
C21_OneRepairTwoChecks ==
  [][call'.op = "transformNewIntegerFeasibleSolution"
       => /\ call'.checks \in 1..2
          /\ call'.repairs \in 0..1
          /\ call'.checks = 2 => call'.repairs = 1]_vars

\* the repair LP was feasible and its solution violates the model again:
\* the violations were computed twice and no second repair was made
C21_Witness ==
  /\ call.op = "transformNewIntegerFeasibleSolution"
  /\ call.checks = 2
  /\ call.repairs = 1
  /\ call.verdict = "infeasible"

(***************************************************************************)
(* Properties of computeNewUpperLimit                                      *)
(***************************************************************************)
\* the step is computeNewUpperLimit(ub, 0, 0)
ZeroGapCall ==
  /\ call'.op = "computeNewUpperLimit"
  /\ call'.args[2] = 0
  /\ call'.args[3] = 0

\* C22 as stated: computeNewUpperLimit(ub, 0, 0) on an integral objective
\* with scale s returns a value k/s for some integer k (a multiple of the
\* step 1/s)
C22_MultipleOfStep == [][ZeroGapCall /\ objectiveFunction.isIntegral => call'.value[1] % objectiveFunction.step = 0]_vars

\* C22: computeNewUpperLimit(ub, 0, 0) on an integral objective with scale s
\* returns k/s + feastol for some integer k: the largest multiple of the step
\* 1/s that is at most ub - 1/(2s), plus the feasibility tolerance
C22_MultipleOfStepPlusFeastol == [][ZeroGapCall /\ objectiveFunction.isIntegral => /\ (call'.value[1] - FEASTOL) % objectiveFunction.step = 0 /\ 2 * (call'.value[1] - FEASTOL) <= 2 * call'.args[1] - objectiveFunction.step /\ 2 * (call'.value[1] - FEASTOL) > 2 * call'.args[1] - 3 * objectiveFunction.step]_vars

\* a zero-gap cutoff of an integral objective whose step the tolerance is no
\* multiple of
C22_Witness ==
  /\ call.op = "computeNewUpperLimit"
  /\ call.args = <<2 * UNIT, 0, 0>>
  /\ objectiveFunction = Integral(UNIT)
  /\ call.value = <<UNIT + FEASTOL>>

\* C23: computeNewUpperLimit(ub, 0, 0) on an objective without integral scale
\* returns a value strictly below ub - feastol/2 for every finite ub, also
\* one so large that ub - feastol is ub again
C23_BelowHalfTolerance == [][ZeroGapCall /\ ~objectiveFunction.isIntegral => 2 * call'.value[1] < 2 * call'.args[1] - FEASTOL]_vars

\* a cutoff of an upper bound that the subtraction of feastol leaves as it is
C23_Witness ==
  /\ call.op = "computeNewUpperLimit"
  /\ ~objectiveFunction.isIntegral
  /\ call.args = <<Coarse + Spacing, 0, 0>>
  /\ fl(call.args[1] - FEASTOL) = call.args[1]
  /\ call.value = <<Coarse>>

(***************************************************************************)
(* Properties of limitsToBounds                                            *)
(***************************************************************************)
\* the bounds a call of limitsToBounds reports, before the sign flip of a
\* maximisation, and the gap
ReportedDual == options.sense * call'.value[1]
ReportedPrimal == options.sense * call'.value[2]
ReportedGap == call'.value[3]
\* the primal bound before the cap by objective_bound
UncappedPrimal == snapToZero(upper_bound + offset_)
\* the gap of a dual and a primal bound as the claim gives it
GapOfBounds(dual, primal) ==
  IF primal = 0
  THEN IF dual = 0 THEN 0 ELSE kHighsInf
  ELSE Percent(IF IsInf(dual) /\ ~IsInf(primal) THEN kHighsInf
               ELSE primal - dual, Abs(primal))

\* C24 as stated: the gap limitsToBounds reports is 100*(primal - dual)/
\* |primal| of the primal and dual bounds it reports (before the sign flip),
\* and for primal = 0 it is 0 if dual = 0 and infinite otherwise
C24_GapOfReportedBounds == [][call'.op = "limitsToBounds" => ReportedGap = GapOfBounds(ReportedDual, ReportedPrimal)]_vars

\* C24: with an incumbent the gap limitsToBounds reports is 100*(primal -
\* dual)/|primal| of the dual bound it reports and the primal bound before
\* the cap by objective_bound (both before the sign flip), and for primal = 0
\* it is 0 if dual = 0 and infinite otherwise; without an incumbent the gap
\* is infinite
C24_GapOfUncappedBounds == [][call'.op = "limitsToBounds" => ReportedGap = IF upper_bound = kHighsInf THEN kHighsInf ELSE GapOfBounds(ReportedDual, UncappedPrimal)]_vars

\* a finite gap of bounds that are not zero
C24_Witness ==
  /\ call.op = "limitsToBounds"
  /\ options.sense = -1
  /\ call.value = <<-UNIT, -3 * UNIT, (200 * UNIT) \div 3>>

(***************************************************************************)
(* Properties of runSetup on special models                                *)
(***************************************************************************)
\* the step is runSetup on a model without columns
SetupOfEmptyModel == call'.op = "runSetup" /\ numCol(Cur) = 0

\* C25 as stated: runSetup on a model with zero columns accepts the empty
\* solution with objective 0 as incumbent and sets the model status to
\* optimal, without entering the root node evaluation
C25_EmptyModelOptimal == [][SetupOfEmptyModel => upper_bound' = 0 /\ modelstatus_' = kOptimal /\ pc' = "done"]_vars

\* C25: runSetup on a model with zero columns never enters the root node
\* evaluation: the model status is infeasible if the propagation finds the
\* domain infeasible and optimal otherwise, and the empty solution with
\* objective 0 is the incumbent if postsolve turns it into a solution
\* feasible for the original model and no better one is known
C25_EmptyModelDecided == [][SetupOfEmptyModel => /\ pc' = "done" /\ modelstatus_' = (IF domain_infeasible' THEN kInfeasible ELSE kOptimal) /\ (call'.verdict = "feasible" => /\ upper_bound' <= 0 /\ (upper_bound' = 0 => options.sense * solution_objective_' - offset_' = 0))]_vars

\* an empty model declared optimal with the empty solution as incumbent
C25_Witness ==
  /\ call.op = "runSetup"
  /\ numCol(Cur) = 0
  /\ modelstatus_ = kOptimal
  /\ call.verdict = "feasible"
  /\ upper_bound = 0
  /\ numImprovingSols = 1
  /\ solution_ = <<UNIT>>
  /\ pc = "done"

\* the step is runSetup on a model with a semi-continuous or semi-integer
\* column
SetupOfSemiModel == call'.op = "runSetup" /\ unexpectedType(Cur)

\* C27: a model that reaches runSetup with a semi-continuous or semi-integer
\* column always ends runSetup in the fatal error; runSetup never returns
\* normally for such a model
C27_SemiColumnFatal == [][SetupOfSemiModel => call'.exit = "throw" /\ pc' = "fatal"]_vars

(***************************************************************************)
(* Properties of evaluateRootLp                                            *)
(***************************************************************************)
\* the step is a pass of evaluateRootLp that leaves through the named return
RootLpExit(exit) == call'.op = "evaluateRootLp" /\ call'.exit = exit

\* C26: when the root relaxation resolves as unbounded, evaluateRootLp
\* terminates with the model status unbounded if a feasible integer solution
\* is known and unbounded-or-infeasible if none is; a stored infeasible
\* fallback solution is no known feasible solution
C26_UnboundedByFeasibleSolution == [][RootLpExit("unbounded") => pc' = "done" /\ modelstatus_' = (IF StoredFeasible THEN kUnbounded ELSE kUnboundedOrInfeasible)]_vars

\* C28: whenever evaluateRootLp returns the relaxation status through its
\* normal exit, the domain's set of changed columns is empty: no bound
\* changed that has not been pushed into the relaxation and re-solved
C28_FixedPointAtNormalExit == [][RootLpExit("normal") => /\ ~changedCols' /\ ~domain_infeasible' /\ lp'.solved /\ pc' = "solve"]_vars

\* a normal exit with a fractional LP optimum and no bound left to push
C28_Witness ==
  /\ call.op = "evaluateRootLp"
  /\ call.exit = "normal"
  /\ call.resolved
  /\ ~changedCols
  /\ lp.status = kLpOptimal
  /\ fractionalIntegers(lp.sol)
  /\ lower_bound > -kHighsInf

\* the passes of evaluateRootLp that return HighsLpRelaxation::Status::
\* kInfeasible
InfeasibleExits == {"domain", "lp", "pruned", "optimal"}

\* C29: if domain propagation or orbital fixing reports infeasibility,
\* evaluateRootLp terminates with lower_bound = upper_bound (infinity without
\* incumbent), pruned_treeweight = 1 and num_nodes and num_leaves incremented
\* by one; every infeasible return counts exactly one node and one leaf and
\* leaves pruned_treeweight = 1, and a pass that goes round again counts
\* nothing
C29_InfeasibleCountsOneLeaf == [][call'.op = "evaluateRootLp" => /\ (call'.exit \in InfeasibleExits => /\ num_nodes' = num_nodes + 1 /\ num_leaves' = num_leaves + 1 /\ pruned_treeweight' = 1 /\ pc' = "done") /\ (call'.exit = "domain" => lower_bound' = upper_bound /\ upper_bound' = upper_bound) /\ (call'.exit = "continue" => num_nodes' = num_nodes /\ num_leaves' = num_leaves)]_vars

\* propagation reports infeasibility while an incumbent is known
C29_Witness ==
  /\ call.op = "evaluateRootLp"
  /\ call.exit = "domain"
  /\ domain_infeasible
  /\ upper_bound = UNIT
  /\ lower_bound = UNIT
  /\ num_nodes = 1
  /\ num_leaves = 1
  /\ pruned_treeweight = 1

\* the pass re-solved the relaxation to optimality without fractional
\* integer variables
IntegralResolve ==
  /\ call'.op = "evaluateRootLp"
  /\ call'.resolved
  /\ lp'.status = kLpOptimal
  /\ ~fractionalIntegers(lp'.sol)
\* the model is declared solved to optimality
DeclaredOptimal ==
  /\ call'.exit = "optimal"
  /\ modelstatus_' = kOptimal
  /\ lower_bound' = upper_bound'
  /\ pruned_treeweight' = 1

SepaTreeSizes == {1, 9}
SepaCuts == 4

\* evaluateRootNode up to the end of its separation loop, without restarts
NextSepa ==
  \/ RunSetup \/ EvaluateRootNodeOf(SepaTreeSizes) \/ StartSymmetryDetection
  \/ StartAnalyticCenterComputation \/ LoadModel \/ RootLp \/ RootBasis \/ If
  \/ Heuristic \/ BeginSeparation \/ Poll \/ Stall \/ Count
  \/ RootSeparationRound \/ SeparationUpTo(SepaCuts) \/ RoundEnd
  \/ FinishAnalyticCenterComputation \/ SyncAnalyticCenter \/ FixAtCenter
  \/ Progress \/ AnalyticCenterTask

SpecSepa == InitNode /\ [][NextSepa]_vars

\* a round of the separation loop is about to start: ++nseparounds is done
\* and rootSeparationRound is called next
RoundStarts == root.at = "round1553"

NextHeur ==
  \/ RunSetup \/ EvaluateRootNode \/ StartSymmetryDetection
  \/ StartAnalyticCenterComputation \/ LoadModel \/ RootLp \/ RootBasis \/ If
  \/ RemoveObsoleteRows \/ HeuristicNoting(DOMAIN PostLoopHeuristics)
  \/ BeginSeparation \/ Poll \/ Stall \/ Count \/ RootSeparationRound
  \/ Separation \/ RoundEnd \/ FinishAnalyticCenterComputation
  \/ SyncAnalyticCenter \/ FixAtCenter \/ Progress \/ Separate
  \/ SolvedAtRoot \/ SyncSymmetry \/ FinishSymmetryDetection \/ Seed
  \/ Leave \/ Join \/ Destroy \/ SymmetryTask \/ AnalyticCenterTask

\* the solves of NodeConfigs and a main solve whose objective is not
\* integral, so that an incumbent above the LP optimum does not end the root
HeurConfigs == NodeConfigs \cup {Config(NodeOptions, NonIntegral, <<>>, 0)}

InitHeur == \E c \in HeurConfigs : InitConfig(c)

SpecHeur == InitHeur /\ [][NextHeur]_vars

\* the place of a heuristic in the order of the phase
PlaceOf(name) == CHOOSE i \in DOMAIN PostLoopHeuristics : PostLoopHeuristics[i] = name
Ran(name) == \E i \in DOMAIN root.ran : root.ran[i] = name

\* C32: the heuristics of the phase run in the order reduced-cost rounding,
\* RENS, trivial, feasibility pump; RENS has run only if reduced-cost rounding
\* has, and the feasibility pump is called only with upper_limit infinite, no
\* incumbent and not in a sub-solve
C32_HeuristicOrder ==
  /\ \A i, j \in DOMAIN root.ran :
       i < j => PlaceOf(root.ran[i]) < PlaceOf(root.ran[j])
  /\ Ran("RENS") => Ran("rootReducedCost")
  /\ root.at = "heur1702" =>
       upper_limit = kHighsInf /\ incumbent = <<>> /\ ~options.submip
  /\ Ran("feasibilityPump") => ~options.submip

\* all four heuristics have run in one phase
C32_Witness ==
  root.ran = PostLoopHeuristics /\ root.at = "poll1705"

\* the phase was entered (reduced-cost rounding ran) and its block is left
\* through its end, not by a return
PhaseLeft == root.at = "if1710" /\ Ran("rootReducedCost")

\* C33: when the phase was entered with a root solution and the budget
\* allowing it and trivial heuristics are enabled, the trivial heuristics have
\* run when the phase is left, also when the budget ended before RENS
C33_TrivialAlwaysRun ==
  (PhaseLeft /\ options.mip_trivial_heuristics # "off") => Ran("trivial")

(***************************************************************************)
(* The display line                                                        *)
(***************************************************************************)
\* printDisplayLine ran to its end: what it showed and what limitsToBounds
\* yields in the same state
DisplayedLine == call'.op = "printDisplayLine" /\ call'.ret
BoundsOfState == limitsToBounds(Cur)

\* C34: whenever printDisplayLine runs to its end, sense * lb, sense * ub and
\* gap as it computed them equal dual_bound, primal_bound and mip_rel_gap of
\* limitsToBounds in the same state, and none of them is not-a-number
C34_DisplayEqualsLimitsToBounds ==
  [][DisplayedLine =>
       /\ call'.value = <<BoundsOfState.dual_bound, BoundsOfState.primal_bound,
                          BoundsOfState.mip_rel_gap>>
       /\ call'.value[3] # NaN]_vars

\* a line with an incumbent, a finite dual bound below it and a finite,
\* positive gap
C34_Witness ==
  /\ call.op = "printDisplayLine" /\ call.ret
  /\ upper_bound # kHighsInf /\ lower_bound # -kHighsInf
  /\ lower_bound < upper_bound
  /\ call.value[3] > 0 /\ call.value[3] < kHighsInf

(************************* the restarts of the root ************************)
\* the solves of NodeConfigs and a main solve with presolve switched off
RestartConfigs ==
  NodeConfigs \cup {Config([NodeOptions EXCEPT !.presolve = FALSE],
                           Integral(UNIT), <<>>, 0)}

InitRestart == \E c \in RestartConfigs : InitConfig(c)

\* evaluateRootNode with its restarts, up to its return
NextRestart ==
  \/ RunSetup \/ EvaluateRootNode \/ StartSymmetryDetection
  \/ StartAnalyticCenterComputation \/ LoadModel \/ RootLp \/ RootBasis \/ If
  \/ AddCuts \/ RemoveObsoleteRows \/ Heuristic \/ Cancel \/ CapRounds
  \/ TaskWait \/ PerformRestartAtRoot \/ BeginSeparation \/ Poll \/ Stall
  \/ Count \/ RootSeparationRound \/ Separation \/ RoundEnd
  \/ FinishAnalyticCenterComputation \/ SyncAnalyticCenter \/ FixAtCenter
  \/ Progress \/ Separate \/ SolvedAtRoot \/ SyncSymmetry
  \/ FinishSymmetryDetection \/ Seed \/ Leave \/ Join \/ Destroy
  \/ SymmetryTask \/ AnalyticCenterTask

SpecRestart == InitRestart /\ [][NextRestart]_vars

\* evaluateRootNode is about to call performRestart, before the separation
\* (line 1511) or after the loop (line 1750)
RestartBeforeSeparation == root.at = "restart1511"
RestartAfterLoop == root.at = "restart1750"

\* C35 as stated: performRestart is called, at either place, only if the solve
\* is not a sub-solve and presolve is enabled
C35_RestartOnlyInMainSolve ==
  (RestartBeforeSeparation \/ RestartAfterLoop) =>
    ~options.submip /\ options.presolve

\* C35: performRestart is called only if presolve is enabled, and after the
\* loop only if the solve is not a sub-solve
C35_RestartOnlyWithPresolve ==
  /\ (RestartBeforeSeparation \/ RestartAfterLoop) => options.presolve
  /\ RestartAfterLoop => ~options.submip

\* the restart after the loop is reached after a separation round
C35_Witness == RestartAfterLoop /\ root.nseparounds > 0 /\ ~options.submip

(***************************************************************************)
(* The two cutoffs                                                         *)
(***************************************************************************)
\* C36: in every state the gap-based cutoff optimality_limit is at or below
\* the zero-gap cutoff upper_limit
C36_OptimalityLimitBelowUpperLimit == optimality_limit <= upper_limit

\* an incumbent was accepted with gaps set: the gap-based cutoff is strictly
\* below the zero-gap cutoff
C36_Witness ==
  /\ upper_bound # kHighsInf
  /\ options.mip_abs_gap # 0
  /\ optimality_limit < upper_limit
  /\ upper_limit < upper_bound

(***************************************************************************)
(* What evaluateRootNode leaves at its return                              *)
(***************************************************************************)
\* evaluateRootNode is at a return statement or leaving its scope
AtReturn == root.at \in Returning

\* C37: at every return of evaluateRootNode the model status is determined,
\* or the tree is fully pruned, or the root node, and only it, is in the node
\* queue
C37_ReturnDecidedPrunedOrSeeded ==
  AtReturn =>
    \/ modelstatus_ # kNotset
    \/ pruned_treeweight = 1
    \/ Len(nodequeue) = 1

\* the return after the root node was added: status not set, tree not pruned
C37_Witness ==
  /\ root.at = "return" /\ call.at = "seed"
  /\ modelstatus_ = kNotset /\ pruned_treeweight # 1 /\ Len(nodequeue) = 1

(***************************************************************************)
(* The pointers into performRestart                                        *)
(***************************************************************************)
\* C38: after every performRestart call, whatever return it took,
\* mipsolver.rootbasis and mipsolver.pscostinit do not point to the locals
\* root_basis and pscostinit of the call
C38_PointersResetOnReturn ==
  [][call'.op = "performRestart"
       => /\ ~rootbasis'.dangling
          /\ pscostinit' = "null"]_vars

(***************************************************************************)
(* Candidates that do not improve on upper_bound                           *)
(***************************************************************************)
\* the step is a call of addIncumbent with an objective that is not strictly
\* below upper_bound
NotBelowCall == call'.op = "addIncumbent" /\ call'.verdict = "none"

\* C39: a call of addIncumbent whose objective is not strictly below
\* upper_bound returns true and leaves upper_bound, upper_limit,
\* optimality_limit, numImprovingSols, pruned_treeweight, the node queue and
\* the stored original-space solution as they were; of the solver's data it
\* changes at most the reduced-space incumbent, and only when that was empty
C39_NotBelowLeavesState ==
  [][NotBelowCall =>
       /\ call'.ret = TRUE
       /\ UNCHANGED <<upper_bound, upper_limit, optimality_limit,
                      numImprovingSols, pruned_treeweight, nodequeue,
                      solution_, solution_objective_, bound_violation_,
                      integrality_violation_, row_violation_>>
       /\ incumbent' # incumbent => incumbent = <<>>
       /\ UNCHANGED <<modelstatus_, lower_bound, num_nodes, num_leaves,
                      offset_, shift, numRestarts, domain_infeasible,
                      changedCols, lp, num_row_, cutpool, postSolveStack,
                      firstrootbasis, rootbasis, pscostinit, detectSymmetries,
                      symmetries, analyticCenterComputed,
                      analyticCenterStatus, analyticCenter>>]_vars

\* a candidate whose objective is not strictly below upper_bound has been
\* handed to addIncumbent, which returned true; the incumbent it found is
\* still there
C39_Witness ==
  /\ call.op = "addIncumbent" /\ call.verdict = "none"
  /\ call.ret = TRUE /\ ~call.stored
  /\ incumbent # <<>>

(***************************************************************************)
(* Termination of evaluateRootLp                                           *)
(***************************************************************************)
\* the passes that can change a column bound of the finite domain
MaxTightenings == 2

\* the pass changes a column bound: domain.propagate or orbital fixing does,
\* or the changed columns are not empty at its end (they were flushed to the
\* LP, or empty, when the LP was looked at)
Tightens(ext, r) ==
  \/ ext.propagate = "changed"
  \/ r.exit # "domain" /\ r.s.changedCols

\* one pass of the loop over a finite domain: a pass changes a column bound
\* only while the domain has one left to change
EvaluateRootLpFinite ==
  /\ pc \in {"solve", "rootlp"}
  /\ \E ext \in RootExts(Cur) :
       \E r \in {evaluateRootLpPass(Cur, ext)} :
           /\ Tightens(ext, r) => tightened < MaxTightenings
           /\ RootLpPass(ext, r)
           /\ tightened' = IF Tightens(ext, r) THEN tightened + 1
                           ELSE tightened
  /\ UNCHANGED <<timer, user_interrupt, nodeVars>>

\* the loop of a call in progress goes on to its next pass
RootLpLoop == pc = "rootlp" /\ EvaluateRootLpFinite

NextRootFinite == RunSetup \/ AddIncumbentRoot \/ EvaluateRootLpFinite

\* the root LP evaluation over a finite domain; a call that has begun keeps
\* running
SpecRootLpFair ==
  InitRoot /\ [][NextRootFinite]_vars /\ WF_vars(RootLpLoop)

\* C40: evaluateRootLp terminates: over a finite domain, where only finitely
\* many passes change a column bound, a call whose loop goes on to another
\* pass eventually returns, whatever the relaxation returns in each pass
C40_EvaluateRootLpReturns ==
  (pc = "rootlp") ~> (call.op = "evaluateRootLp" /\ call.exit # "continue"
                      /\ pc # "rootlp")

\* a pass ended with changed columns after the last change the domain
\* allows: the loop goes on although no pass can change a bound any more
C40_Witness ==
  /\ pc = "rootlp"
  /\ call.op = "evaluateRootLp" /\ call.exit = "continue"
  /\ tightened = MaxTightenings

====
